---------------------------- MODULE Spec2Model ----------------------------
(***************************************************************************)
(* Model of the incremental-build profiler: the source mutator             *)
(* (profiler/base_kicker.py, profiler/function_kicker.py,                  *)
(* profiler/kicker_interface.py) and the benchmark script                  *)
(* (profiler/build_script.py).                                             *)
(*                                                                         *)
(* A path and a file's content are sequences of one-character strings, so  *)
(* that os.path.splitext, str.lower, the templates' format and the byte    *)
(* arithmetic of truncate are computed as the code computes them.  All     *)
(* characters involved are ASCII: one character is one UTF-8 byte.         *)
(***************************************************************************)
EXTENDS Integers, Sequences, FiniteSets, TLC

VARIABLES
    fs,           \* the file system: path -> [exists, bytes]
    dirty_files,  \* BaseKicker.dirty_files
    trace,        \* history: one record per kicker call made so far
    faults,       \* history: number of environment faults injected so far
    orig,         \* history: the file system before the first call
    resource0,    \* history: the directory that held resources.properties at the start
    pc,           \* build_script.py: position of the main script
    iter,         \* build_script.py: completed passes of `for _ in range(build_count)`
    idx,          \* build_script.py: position of `for file in source_files` (1-based)
    resource,     \* directory that holds resources.properties: "raw" or "res"
    build_count,  \* build_script.py: args.build_count
    source_files, \* build_script.py: result of get_source_files_buck
    times,        \* build_script.py: bazel_times / buck_times / gradle_times
    warmup,       \* build_script.py: initial_*_time, by build system
    builds,       \* history: every build invocation, in order
    cleanups,     \* history: number of completed cleanup_all_dirty calls of the script
    appended,     \* history: paths the script passed to kicker.append, in order
    failure,      \* the exception that ended the script ("none" while running)
    output,       \* what the script emitted after the loop: "stats", "csv"
    clock,        \* BuildSys: the value of time.perf_counter()
    proc,         \* BuildSys: the external process subprocess.run is waiting for
    frame,        \* BuildSys: the build / build_n_times call in progress
    launches,     \* history: every external process that has exited, in order
    returned,     \* history: what each finished BuildSys call gave its caller
    csv_file,     \* the measurement table: the text of the CSV file
    csv_read,     \* what read_csv_data made of csv_file: exit status 1, or (data, colors)
    stats,        \* what create_summary_stats returned for the data read
    pom,          \* the POM file
    pom_calls     \* history: one record per modify_pom_file(_string) call made so far

vars == <<fs, dirty_files, trace, faults, orig, resource0, pc, iter, idx, resource, build_count,
          source_files, times, warmup, builds, cleanups, appended, failure, output,
          clock, proc, frame, launches, returned, csv_file, csv_read, stats, pom, pom_calls>>

kickerVars == <<fs, dirty_files, trace, faults, orig, resource0>>
buildVars == <<clock, proc, frame, launches, returned>>
toolVars == <<csv_file, csv_read, stats, pom, pom_calls>>
scriptVars == <<pc, iter, idx, resource, build_count, source_files, times, warmup,
                builds, cleanups, appended, failure, output, buildVars>>

---------------------------------------------------------------------------
(* Bounds of the model.                                                    *)

\* Kicker calls per behaviour of Spec.
MaxCalls == 3
\* Environment faults (a failed open, a file deleted from outside) per behaviour.
MaxFaults == 1
\* Size of a file that is shorter than some removal lengths and longer than others.
NearSize == 127
\* Size of the largest original file (more than two removal lengths).
MaxOrigLen == 280
\* Largest --build_count of RunSpec.
MaxBuildCount == 2
\* Longest measured duration of a build, in seconds.
MaxDuration == 2
\* Builds of one run that take longer than one second.
MaxSlowBuilds == 1
\* BuildSpec: the last value of the clock, the largest n of build_n_times, and
\* the BuildSys calls per behaviour.
MaxClock == 2
MaxBuilds == 2
MaxBuildCalls == 1

---------------------------------------------------------------------------
(* function_kicker.py                                                      *)

KICK_MARKER == <<"_", "k", "i", "c", "k", "e", "d", "_">>
FUNCTION_LENGTH == 100

ExtPy == <<"p", "y">>
ExtJava == <<"j", "a", "v", "a">>
ExtKt == <<"k", "t">>

\* FunctionKicker.__function_templates: the text before {marker}, and after {name}.
\* Between them the template holds the literal "_"; "{{}}" formats to "{}".
TemplateKeys == {ExtPy, ExtJava, ExtKt}

TemplatePre(ext) ==
    CASE ext = ExtPy -> <<"d", "e", "f", " ", "_">>
      [] ext = ExtJava -> <<"p", "u", "b", "l", "i", "c", " ", "s", "t", "a", "t", "i", "c", " ",
                            "v", "o", "i", "d", " ", "_">>
      [] ext = ExtKt -> <<"f", "u", "n", " ", "_">>

TemplatePost(ext) ==
    CASE ext = ExtPy -> <<"(", ")", ":", "\n", " ", " ", " ", " ", "p", "a", "s", "s">>
      [] ext = ExtJava -> <<"(", ")", " ", "{", "}">>
      [] ext = ExtKt -> <<"(", ")", " ", "{", "}">>

\* template.format(marker=KICK_MARKER, name=func_name)
Format(ext, marker, name) ==
    TemplatePre(ext) \o marker \o <<"_">> \o name \o TemplatePost(ext)

\* str.lower on the letters that occur in the extensions of the model's paths.
LowerChar(c) ==
    CASE c = "K" -> "k"
      [] c = "T" -> "t"
      [] c = "J" -> "j"
      [] c = "A" -> "a"
      [] c = "V" -> "v"
      [] c = "P" -> "p"
      [] c = "Y" -> "y"
      [] OTHER -> c

Lower(s) == [i \in 1..Len(s) |-> LowerChar(s[i])]

\* str.rfind of one character, 1-based; 0 when absent (Python: 0-based, -1).
RFind(p, c) ==
    LET S == {i \in 1..Len(p) : p[i] = c}
    IN IF S = {} THEN 0 ELSE CHOOSE i \in S : \A j \in S : j <= i

\* Mutant of SplitextExt: everything from the last dot of the path, as
\* file.split(".")[-1] would take it.
SplitextExtLastDot(p) ==
    LET dotIndex == RFind(p, ".")
    IN IF dotIndex > 0 THEN SubSeq(p, dotIndex, Len(p)) ELSE <<>>

\* os.path.splitext(file)[1]: the last dot of the last path component starts the
\* extension, unless only dots precede it in that component.
SplitextExt(p) ==
    LET sepIndex == RFind(p, "/")
        dotIndex == RFind(p, ".")
    IN IF dotIndex > sepIndex /\ \E k \in (sepIndex + 1)..(dotIndex - 1) : p[k] # "."
       THEN SubSeq(p, dotIndex, Len(p))
       ELSE <<>>

RECURSIVE LStripDots(_)
\* str.lstrip(".")
LStripDots(s) ==
    IF s # <<>> /\ Head(s) = "." THEN LStripDots(Tail(s)) ELSE s

\* ext = os.path.splitext(file)[1].lstrip(".")
Ext(file) == LStripDots(SplitextExt(file))

\* FunctionKicker._validate_file_type: "ok", or the exception it raises.
ValidateFileType(file) ==
    IF Ext(file) = <<>> THEN "ValueError"
    ELSE IF Lower(Ext(file)) \notin TemplateKeys THEN "ValueError"
    ELSE "ok"

\* FunctionKicker._generate_content, on a file that validates; func_name is the
\* outcome of random.choices(string.ascii_letters, k=FUNCTION_LENGTH).
GenerateContent(file, func_name) ==
    Format(Lower(Ext(file)), KICK_MARKER, func_name)

\* Outcomes of random.choices the model draws from: FUNCTION_LENGTH letters each.
NameLetters == {"a", "Z"}
\* Mutant of Names: random.choices with k drawn anew, one letter fewer at times.
NamesOfTwoLengths ==
    {[i \in 1..k |-> c] : c \in NameLetters, k \in {FUNCTION_LENGTH - 1, FUNCTION_LENGTH}}
Names == {[i \in 1..FUNCTION_LENGTH |-> c] : c \in NameLetters}

---------------------------------------------------------------------------
(* The file system.                                                        *)

NoFile == [exists |-> FALSE, bytes |-> <<>>]
File(b) == [exists |-> TRUE, bytes |-> b]

\* Original content of n bytes: the byte depends on its position.
Digits == <<"0", "1", "2", "3", "4", "5", "6", "7", "8", "9">>
Body(n) == [i \in 1..n |-> IF i % 11 = 0 THEN "\n" ELSE Digits[(i % 10) + 1]]

OrigFiles == {NoFile} \cup {File(Body(n)) : n \in {0, NearSize, MaxOrigLen}}

PFooJava == <<"F", "o", "o", ".", "j", "a", "v", "a">>
PBarKt == <<"B", "a", "r", ".", "k", "t">>
PGenPy == <<"g", "e", "n", ".", "p", "y">>
PBazKT == <<"B", "a", "z", ".", "K", "T">>
PJson == <<"s", ".", "j", "s", "o", "n">>
PReadme == <<"a", ".", "b", "/", "R", "E", "A", "D", "M", "E">>
PDotfile == <<".", "j", "a", "v", "a">>
PGenerated == <<"x", "/", "_", "g", "e", "n", "e", "r", "a", "t", "e", "d", "_", "d", "a", "t",
                "a", "b", "i", "n", "d", "i", "n", "g", "/", "G", ".", "k", "t">>

---------------------------------------------------------------------------
(* base_kicker.py, kicker_interface.py                                     *)

\* What a call printed: a set of <<file, message>>.
\*   "warning"       Warning: File ... is smaller than expected content length.
\*   "notfound"      Error: The file ... does not exist.
\*   "ioerror"       Error: An I/O error occurred while reverting/writing ...
\*   "unexpected"    Error: An unexpected error occurred: ...
Said(file, msg) == IF msg = "none" THEN {} ELSE {<<file, msg>>}

\* Mutant of ContentBytesLen: the two newlines are not counted.
ContentBytesLenNoNewlines(file, sample_name) ==
    Len(GenerateContent(file, sample_name))

\* content_bytes_len of _remove_appended_content: len("\n".encode()) * 2 +
\* len(sample_content.encode())
ContentBytesLen(file, sample_name) ==
    Len(<<"\n">>) * 2 + Len(GenerateContent(file, sample_name))

\* Mutant of RemoveAppendedContent: no check of the file size before truncate.
RemoveAppendedContentNoSizeCheck(f, file, sample_name, io_fault) ==
    IF ValidateFileType(file) # "ok" THEN [file |-> f, msg |-> "unexpected"]
    ELSE IF ~f.exists THEN [file |-> f, msg |-> "notfound"]
    ELSE IF io_fault THEN [file |-> f, msg |-> "ioerror"]
    ELSE LET content_bytes_len == ContentBytesLen(file, sample_name)
             file_size == Len(f.bytes)
         IN [file |-> File(SubSeq(f.bytes, 1, file_size - content_bytes_len)),
             msg |-> "none"]

\* BaseKicker._remove_appended_content on file record f of path `file`.
\* sample_name is the name drawn by its own _generate_content call; io_fault says
\* that open(file, "rb+") raises an IOError other than FileNotFoundError.
\* Every exception is caught and printed: the result is the file and the message.
RemoveAppendedContent(f, file, sample_name, io_fault) ==
    IF ValidateFileType(file) # "ok" THEN [file |-> f, msg |-> "unexpected"]
    ELSE IF ~f.exists THEN [file |-> f, msg |-> "notfound"]
    ELSE IF io_fault THEN [file |-> f, msg |-> "ioerror"]
    ELSE LET content_bytes_len == ContentBytesLen(file, sample_name)
             file_size == Len(f.bytes)
         IN IF file_size < content_bytes_len
            THEN [file |-> f, msg |-> "warning"]
            ELSE [file |-> File(SubSeq(f.bytes, 1, file_size - content_bytes_len)),
                  msg |-> "none"]

\* f.write(f"\n{content}\n") on a file opened with "a"
Written(bytes, content) == bytes \o <<"\n">> \o content \o <<"\n">>

\* Mutant of AppendContent: a dirty file is appended to without removing the
\* block it carries.
AppendContentNoRemove(fsv, dirty, file, content, sample_name, rm_fault, wr_fault) ==
    IF ~fsv[file].exists
    THEN [fs |-> fsv, dirty |-> dirty, out |-> "FileNotFoundError",
          said |-> Said(file, "notfound")]
    ELSE IF wr_fault
    THEN [fs |-> fsv, dirty |-> dirty, out |-> "IOError", said |-> Said(file, "ioerror")]
    ELSE [fs |-> [fsv EXCEPT ![file] = File(Written(fsv[file].bytes, content))],
          dirty |-> dirty \cup {file}, out |-> "ok", said |-> {}]

\* Mutant of AppendContent: a missing file and a failed write are printed, and
\* the call returns normally.
AppendContentSwallowing(fsv, dirty, file, content, sample_name, rm_fault, wr_fault) ==
    LET rm == IF file \in dirty
              THEN RemoveAppendedContent(fsv[file], file, sample_name, rm_fault)
              ELSE [file |-> fsv[file], msg |-> "none"]
        fs1 == [fsv EXCEPT ![file] = rm.file]
    IN IF ~rm.file.exists
       THEN [fs |-> fs1, dirty |-> dirty, out |-> "ok",
             said |-> Said(file, rm.msg) \cup Said(file, "notfound")]
       ELSE IF wr_fault
       THEN [fs |-> fs1, dirty |-> dirty, out |-> "ok",
             said |-> Said(file, rm.msg) \cup Said(file, "ioerror")]
       ELSE [fs |-> [fs1 EXCEPT ![file] = File(Written(rm.file.bytes, content))],
             dirty |-> dirty \cup {file}, out |-> "ok", said |-> Said(file, rm.msg)]

\* BaseKicker._append_content(file, content) in file system fsv with dirty set dirty.
\* rm_fault: the open of the removal step fails; wr_fault: open(file, "a") or the
\* write raises an IOError.  Result: the new file system and dirty set, the
\* exception raised ("ok" when none) and what was printed.
AppendContent(fsv, dirty, file, content, sample_name, rm_fault, wr_fault) ==
    LET rm == IF file \in dirty
              THEN RemoveAppendedContent(fsv[file], file, sample_name, rm_fault)
              ELSE [file |-> fsv[file], msg |-> "none"]
        fs1 == [fsv EXCEPT ![file] = rm.file]
    IN IF ~rm.file.exists
       THEN [fs |-> fs1, dirty |-> dirty, out |-> "FileNotFoundError",
             said |-> Said(file, rm.msg) \cup Said(file, "notfound")]
       ELSE IF wr_fault
       THEN [fs |-> fs1, dirty |-> dirty, out |-> "IOError",
             said |-> Said(file, rm.msg) \cup Said(file, "ioerror")]
       ELSE [fs |-> [fs1 EXCEPT ![file] = File(Written(rm.file.bytes, content))],
             dirty |-> dirty \cup {file}, out |-> "ok", said |-> Said(file, rm.msg)]

\* BaseKicker.append(file)
KickerAppend(fsv, dirty, file, func_name, sample_name, rm_fault, wr_fault) ==
    IF ValidateFileType(file) # "ok"
    THEN [fs |-> fsv, dirty |-> dirty, out |-> "ValueError", said |-> {}]
    ELSE AppendContent(fsv, dirty, file, GenerateContent(file, func_name),
                       sample_name, rm_fault, wr_fault)

\* BaseKicker.cleanup(file)
KickerCleanup(fsv, dirty, file, sample_name, io_fault) ==
    LET rm == RemoveAppendedContent(fsv[file], file, sample_name, io_fault)
    IN [fs |-> [fsv EXCEPT ![file] = rm.file], dirty |-> dirty, out |-> "ok",
        said |-> Said(file, rm.msg)]

\* Mutant of CleanupAll: an exception of one cleanup (missing file, failed open,
\* unsupported type) leaves the loop, and the other files are not cleaned.
CleanupAllStoppingAtError(fsv, files, sample, failing) ==
    LET rm(file) == RemoveAppendedContent(fsv[file], file, sample[file], file \in failing)
        raised == {file \in files : rm(file).msg \in {"notfound", "ioerror", "unexpected"}}
    IN [fs |-> [file \in DOMAIN fsv |->
                   IF file \in files /\ raised = {} THEN rm(file).file ELSE fsv[file]],
        said |-> UNION {Said(file, rm(file).msg) : file \in raised}]

\* KickerInterface.cleanup_all(files): cleanup(file) for every file of the
\* iterable.  A cleanup changes its own file only, so the order in which the set
\* is iterated does not show in the result.  sample[file] is the name drawn by
\* the cleanup of file, failing the files whose open fails.
CleanupAll(fsv, files, sample, failing) ==
    [fs |-> [file \in DOMAIN fsv |->
                IF file \in files
                THEN RemoveAppendedContent(fsv[file], file, sample[file],
                                           file \in failing).file
                ELSE fsv[file]],
     said |-> UNION {Said(file, RemoveAppendedContent(fsv[file], file, sample[file],
                                                      file \in failing).msg) :
                     file \in files}]

\* Mutant of KickerCleanupAllDirty: only the files whose cleanup printed nothing
\* are discarded from the dirty set.
KickerCleanupAllDirtyKeepFailed(fsv, dirty, sample, failing) ==
    LET r == CleanupAll(fsv, dirty, sample, failing)
    IN [fs |-> r.fs, dirty |-> {file \in dirty : \E m \in r.said : m[1] = file},
        out |-> "ok", said |-> r.said]

\* BaseKicker.cleanup_all_dirty()
KickerCleanupAllDirty(fsv, dirty, sample, failing) ==
    LET r == CleanupAll(fsv, dirty, sample, failing)
    IN [fs |-> r.fs, dirty |-> {}, out |-> "ok", said |-> r.said]

---------------------------------------------------------------------------
(* Spec: any sequence of append, cleanup and cleanup_all_dirty calls on a  *)
(* kicker, in an environment that may fail an open or delete a file.       *)

\* Paths the first file of a behaviour is drawn from; the second is Bar.kt.
KickPaths == {PFooJava, PGenPy, PBazKT, PJson, PReadme, PDotfile}

Systems == {"Bazel", "Buck2", "Gradle"}

\* No BuildSys call in progress and no process running.
NoProc == [running |-> FALSE, command |-> <<>>, start |-> 0]
NoFrame == [method |-> "none", build_sys |-> "", call |-> 0, n |-> 0, i |-> 0, first |-> 0]
\* No measurement table, no POM, nothing read and no call made.
NoPom == [exists |-> FALSE, namespaced |-> FALSE, deps |-> <<>>, rewritten |-> FALSE]
NotRead == [exit |-> 0, called |-> FALSE, data |-> <<>>, colors |-> <<>>]
IdleTools ==
    /\ csv_file = [exists |-> FALSE, bytes |-> <<>>]
    /\ csv_read = NotRead
    /\ stats = <<>>
    /\ pom = NoPom
    /\ pom_calls = <<>>

IdleBuildSys ==
    /\ clock = 0
    /\ proc = NoProc
    /\ frame = NoFrame
    /\ launches = <<>>
    /\ returned = <<>>

IdleScript ==
    /\ IdleBuildSys
    /\ IdleTools
    /\ pc = "idle"
    /\ iter = 0
    /\ idx = 0
    /\ resource = "raw"
    /\ resource0 = resource
    /\ build_count = 0
    /\ source_files = <<>>
    /\ times = [s \in Systems |-> <<>>]
    /\ warmup = <<>>
    /\ builds = <<>>
    /\ cleanups = 0
    /\ appended = <<>>
    /\ failure = "none"
    /\ output = {}

\* BaseKicker.__init__: no file is dirty.
Init ==
    /\ \E a \in KickPaths, fa \in OrigFiles :
          fs = (a :> fa) @@ (PBarKt :> File(Body(MaxOrigLen)))
    /\ dirty_files = {}
    /\ trace = <<>>
    /\ faults = 0
    /\ orig = fs
    /\ IdleScript

\* The record of a call: the state it started in, what it raised and printed,
\* whether the environment failed an open during it (fault) and whether that
\* was the open or write of the append step (wr_fault).
Call(op, file, r, fault, wr_fault) ==
    [op |-> op, file |-> file, out |-> r.out, said |-> r.said,
     dirty |-> dirty_files, fs |-> fs, fault |-> fault, wr_fault |-> wr_fault]

Commit(op, file, r, nfaults, wr_fault) ==
    /\ fs' = r.fs
    /\ dirty_files' = r.dirty
    /\ trace' = Append(trace, Call(op, file, r, nfaults > 0, wr_fault))
    /\ faults' = faults + nfaults
    /\ UNCHANGED <<orig, resource0, toolVars, scriptVars>>

Fault(b) == IF b THEN 1 ELSE 0

\* An open can fail only where the code reaches it: on a file of a supported
\* type that exists.
Opens(file) == ValidateFileType(file) = "ok" /\ fs[file].exists

DoAppend ==
    /\ Len(trace) < MaxCalls
    /\ \E file \in DOMAIN fs, func_name \in Names, sample_name \in Names,
          rm_fault \in BOOLEAN, wr_fault \in BOOLEAN :
          /\ rm_fault => Opens(file) /\ file \in dirty_files
          /\ wr_fault => Opens(file)
          /\ faults + Fault(rm_fault) + Fault(wr_fault) <= MaxFaults
          /\ Commit("append", file,
                    KickerAppend(fs, dirty_files, file, func_name, sample_name,
                                 rm_fault, wr_fault),
                    Fault(rm_fault) + Fault(wr_fault), wr_fault)

DoCleanup ==
    /\ Len(trace) < MaxCalls
    /\ \E file \in DOMAIN fs, sample_name \in Names, io_fault \in BOOLEAN :
          /\ io_fault => Opens(file)
          /\ faults + Fault(io_fault) <= MaxFaults
          /\ Commit("cleanup", file,
                    KickerCleanup(fs, dirty_files, file, sample_name, io_fault),
                    Fault(io_fault), FALSE)

DoCleanupAllDirty ==
    /\ Len(trace) < MaxCalls
    /\ \E sample \in [dirty_files -> Names],
          failing \in SUBSET {file \in dirty_files : Opens(file)} :
          /\ faults + Cardinality(failing) <= MaxFaults
          /\ Commit("cleanup_all_dirty", <<>>,
                    KickerCleanupAllDirty(fs, dirty_files, sample, failing),
                    Cardinality(failing), FALSE)

\* The environment deletes a file between two calls.
EnvDelete ==
    /\ Len(trace) < MaxCalls
    /\ faults < MaxFaults
    /\ \E file \in DOMAIN fs :
          /\ fs[file].exists
          /\ Commit("env_delete", file,
                    [fs |-> [fs EXCEPT ![file] = NoFile], dirty |-> dirty_files,
                     out |-> "ok", said |-> {}], 1, FALSE)

Next == DoAppend \/ DoCleanup \/ DoCleanupAllDirty \/ EnvDelete

Spec == Init /\ [][Next]_vars

---------------------------------------------------------------------------
(* build_script.py                                                         *)

\* Mutant of BuildSysBuild: the return code is not looked at.
BuildSysBuildIgnoringReturnCode(returncode, elapsed) ==
    [out |-> "ok", time |-> elapsed]

\* BuildSys.build: the process is run once; a non-zero return code raises
\* RuntimeError, otherwise the elapsed time of that run is returned.
BuildSysBuild(returncode, elapsed) ==
    IF returncode # 0 THEN [out |-> "RuntimeError", time |-> elapsed]
    ELSE [out |-> "ok", time |-> elapsed]

\* The BuildSys objects of the script: name, invocation, working directory.
Registered ==
    [Bazel |-> [build_sys |-> "Bazel", invocation |-> "bazel", working_dir |-> "bazel_working_dir"],
     Buck2 |-> [build_sys |-> "Buck2", invocation |-> "/Users/b41z33d/.cargo/bin/buck2",
                working_dir |-> "None"],
     Gradle |-> [build_sys |-> "Gradle", invocation |-> "./gradlew", working_dir |-> "gradle_dir"]]

\* The calls the model draws from: the three of the script, and one with the
\* buck_args mapping. args is the list of the mapping's items, target "" is None.
BuildCalls ==
    << [build_sys |-> "Bazel", cmd |-> "build", target |-> "//app:app", args |-> <<>>],
       [build_sys |-> "Gradle", cmd |-> "assembleDevRelease", target |-> "", args |-> <<>>],
       [build_sys |-> "Buck2", cmd |-> "build", target |-> "//app:app", args |-> <<>>],
       [build_sys |-> "Buck2", cmd |-> "build", target |-> "//app:app",
        args |-> << <<"--isolation-dir", "buck2_isolation">> >>] >>

\* What the process printed, whichever way it exited.
Stdouts == {"BUILD SUCCESSFUL", "ERROR: no such target"}

\* BuildSys.execute: command = [invocation] + [arg, value, ...] + [cmd] + [target]
RECURSIVE FlattenArgs(_)
FlattenArgs(args) ==
    IF args = <<>> THEN <<>>
    ELSE <<args[1][1], args[1][2]>> \o FlattenArgs(Tail(args))

Command(invocation, cmd, target, args) ==
    <<invocation>> \o FlattenArgs(args) \o <<cmd>>
    \o (IF target # "" THEN <<target>> ELSE <<>>)

\* BuildSys.execute: start = time.perf_counter(); subprocess.run(command, ...)
Launch(call) ==
    [running |-> TRUE,
     command |-> Command(Registered[BuildCalls[call].build_sys].invocation, BuildCalls[call].cmd,
                         BuildCalls[call].target, BuildCalls[call].args),
     start |-> clock]

\* Mutant of Excluded: no file is skipped.
ExcludedNever(file) == FALSE

\* The filter of the loop: "/_generated_databinding/" in file
GeneratedMark == <<"/", "_", "g", "e", "n", "e", "r", "a", "t", "e", "d", "_", "d", "a", "t",
                   "a", "b", "i", "n", "d", "i", "n", "g", "/">>
Contains(s, sub) ==
    \E i \in 1..(Len(s) - Len(sub) + 1) : SubSeq(s, i, i + Len(sub) - 1) = sub
Excluded(file) == Contains(file, GeneratedMark)

\* shutil.move(<from>/resources.properties, <to>/): the file must be in <from>.
Move(from, to) ==
    IF resource = from THEN [out |-> "ok", at |-> to]
    ELSE [out |-> "FileNotFoundError", at |-> resource]

\* Results of get_source_files_buck the model draws from.
SourceLists ==
    { <<PFooJava, PGenerated, PBarKt>>,
      <<PBarKt, PFooJava, PBarKt>>,
      <<PBarKt, PJson, PFooJava>>,
      <<>> }

\* The build systems in the order their BuildSys objects are created, which is
\* also the order of custom_colors and of the table; and in the order the loop
\* builds them.
Registration == <<"Bazel", "Buck2", "Gradle">>
LoopOrder == <<"Bazel", "Gradle", "Buck2">>

\* Return codes and elapsed times of the external build processes.
ReturnCodes == {0, 1}
SlowBuilds == Cardinality({i \in DOMAIN builds : builds[i].time > 1})
Durations == IF SlowBuilds < MaxSlowBuilds THEN 1..MaxDuration ELSE {1}

\* The state in which `if __name__ == "__main__"` starts, arguments parsed.
RunInit ==
    /\ \E foo \in OrigFiles :
          fs = (PFooJava :> foo) @@ (PBarKt :> File(Body(NearSize)))
               @@ (PGenerated :> File(Body(MaxOrigLen))) @@ (PJson :> File(Body(MaxOrigLen)))
    /\ dirty_files = {}
    /\ trace = <<>>
    /\ faults = 0
    /\ orig = fs
    /\ pc = "warm_bazel"
    /\ iter = 0
    /\ idx = 0
    /\ resource \in {"raw", "res"}
    /\ resource0 = resource
    /\ build_count \in (-1)..MaxBuildCount
    /\ source_files = <<>>
    /\ times = [s \in Systems |-> <<>>]
    /\ warmup = <<>>
    /\ builds = <<>>
    /\ cleanups = 0
    /\ appended = <<>>
    /\ failure = "none"
    /\ output = {}
    /\ IdleBuildSys
    /\ IdleTools

\* An exception outside the try statement ends the script.
Raise(exc) == failure' = exc /\ pc' = "exit"
\* Mutant of RaiseInTry: no finally clause.
RaiseWithoutFinally(exc) == failure' = exc /\ pc' = "exit"
\* An exception inside the try statement runs the finally clause first.
RaiseInTry(exc) == failure' = exc /\ pc' = "finally"

Built(sys, phase, returncode, r) ==
    builds' = Append(builds, [sys |-> sys, phase |-> phase, pass |-> iter,
                              returncode |-> returncode, out |-> r.out,
                              time |-> r.time])

\* Mutant of WarmUpBuild: the warm-up time is also appended to the system's list.
WarmUpBuildMeasured(at, sys, then) ==
    /\ pc = at
    /\ proc.running
    /\ proc' = NoProc
    /\ \E returncode \in ReturnCodes, elapsed \in Durations :
          LET r == BuildSysBuild(returncode, elapsed)
          IN /\ Built(sys, "warmup", returncode, r)
             /\ IF r.out = "ok"
                THEN /\ warmup' = (sys :> r.time) @@ warmup
                     /\ times' = [times EXCEPT ![sys] = Append(@, r.time)]
                     /\ pc' = then
                     /\ UNCHANGED failure
                ELSE /\ Raise(r.out)
                     /\ UNCHANGED <<warmup, times>>
    /\ UNCHANGED <<kickerVars, toolVars, clock, frame, launches, returned, iter, idx, resource, build_count, source_files,
                   cleanups, appended, output>>

\* The BuildSys call made at each build position of the script, and the position
\* the script goes on to when the call has returned.
BuildAt ==
    [warm_bazel |-> 1, warm_gradle |-> 2, warm_buck |-> 3,
     build_bazel |-> 1, build_gradle |-> 2, build_buck |-> 3]
AfterBuild ==
    [warm_bazel |-> "warm_move", warm_gradle |-> "warm_buck", warm_buck |-> "discover",
     build_bazel |-> "move_res", build_gradle |-> "build_buck", build_buck |-> "loop"]

\* Mutant of StartBuild: the process is started and not waited for.
StartBuildNotWaiting ==
    /\ pc \in DOMAIN BuildAt
    /\ proc' = Launch(BuildAt[pc])
    /\ pc' = AfterBuild[pc]
    /\ UNCHANGED <<kickerVars, toolVars, iter, idx, resource, build_count, source_files, times, warmup,
                   builds, cleanups, appended, failure, output, clock, frame, launches,
                   returned>>

\* <sys>_build.build(...) is called: execute starts the process and
\* subprocess.run waits for it, the script staying where it is.
StartBuild ==
    /\ pc \in DOMAIN BuildAt
    /\ ~proc.running
    /\ proc' = Launch(BuildAt[pc])
    /\ UNCHANGED <<kickerVars, toolVars, pc, iter, idx, resource, build_count, source_files, times,
                   warmup, builds, cleanups, appended, failure, output, clock, frame,
                   launches, returned>>

\* initial_<sys>_time = <sys>_build.build(...): the process has exited.
WarmUpBuild(at, sys, then) ==
    /\ pc = at
    /\ proc.running
    /\ proc' = NoProc
    /\ \E returncode \in ReturnCodes, elapsed \in Durations :
          LET r == BuildSysBuild(returncode, elapsed)
          IN /\ Built(sys, "warmup", returncode, r)
             /\ IF r.out = "ok"
                THEN /\ warmup' = (sys :> r.time) @@ warmup
                     /\ pc' = then
                     /\ UNCHANGED failure
                ELSE /\ Raise(r.out)
                     /\ UNCHANGED warmup
    /\ UNCHANGED <<kickerVars, toolVars, clock, frame, launches, returned, iter, idx, resource, build_count, source_files, times,
                   cleanups, appended, output>>

WarmUpBazel == WarmUpBuild("warm_bazel", "Bazel", "warm_move")
WarmUpGradle == WarmUpBuild("warm_gradle", "Gradle", "warm_buck")
WarmUpBuck == WarmUpBuild("warm_buck", "Buck2", "discover")

\* shutil.move(raw + "resources.properties", res), before the Gradle warm-up
WarmUpMove ==
    /\ pc = "warm_move"
    /\ LET m == Move("raw", "res")
       IN /\ resource' = m.at
          /\ IF m.out = "ok" THEN pc' = "warm_gradle" /\ UNCHANGED failure
             ELSE Raise(m.out)
    /\ UNCHANGED <<kickerVars, toolVars, buildVars, iter, idx, build_count, source_files, times, warmup,
                   builds, cleanups, appended, output>>

\* source_files = get_source_files_buck(...); kicker = FunctionKicker()
Discover ==
    /\ pc = "discover"
    /\ \/ /\ source_files' \in SourceLists
          /\ pc' = "loop"
          /\ UNCHANGED failure
       \/ /\ Raise("RuntimeError")
          /\ UNCHANGED source_files
    /\ UNCHANGED <<kickerVars, toolVars, buildVars, iter, idx, resource, build_count, times, warmup, builds,
                   cleanups, appended, output>>

\* Mutant of LoopHead: one pass too many.
LoopHeadOneMore ==
    /\ pc = "loop"
    /\ IF iter <= build_count THEN pc' = "append" /\ idx' = 1
       ELSE pc' = "finally" /\ UNCHANGED idx
    /\ UNCHANGED <<kickerVars, toolVars, buildVars, iter, resource, build_count, source_files, times, warmup,
                   builds, cleanups, appended, failure, output>>

\* for _ in range(build_count)
LoopHead ==
    /\ pc = "loop"
    /\ IF iter < build_count THEN pc' = "append" /\ idx' = 1
       ELSE pc' = "finally" /\ UNCHANGED idx
    /\ UNCHANGED <<kickerVars, toolVars, buildVars, iter, resource, build_count, source_files, times, warmup,
                   builds, cleanups, appended, failure, output>>

\* for file in source_files: if "/_generated_databinding/" in file: continue
SkipFile ==
    /\ pc = "append"
    /\ idx <= Len(source_files)
    /\ Excluded(source_files[idx])
    /\ idx' = idx + 1
    /\ UNCHANGED <<kickerVars, toolVars, buildVars, pc, iter, resource, build_count, source_files, times,
                   warmup, builds, cleanups, appended, failure, output>>

\* kicker.append(file)
AppendFile ==
    /\ pc = "append"
    /\ idx <= Len(source_files)
    /\ ~Excluded(source_files[idx])
    /\ \E func_name \in Names, sample_name \in Names :
          LET file == source_files[idx]
              r == KickerAppend(fs, dirty_files, file, func_name, sample_name,
                                FALSE, FALSE)
          IN /\ fs' = r.fs
             /\ dirty_files' = r.dirty
             /\ appended' = Append(appended, file)
             /\ IF r.out = "ok" THEN idx' = idx + 1 /\ UNCHANGED <<pc, failure>>
                ELSE RaiseInTry(r.out) /\ UNCHANGED idx
    /\ UNCHANGED <<trace, faults, orig, resource0, toolVars, buildVars, iter, resource, build_count,
                   source_files, times, warmup, builds, cleanups, output>>

\* the end of `for file in source_files`
FilesDone ==
    /\ pc = "append"
    /\ idx > Len(source_files)
    /\ pc' = "move_raw"
    /\ UNCHANGED <<kickerVars, toolVars, buildVars, iter, idx, resource, build_count, source_files, times,
                   warmup, builds, cleanups, appended, failure, output>>

\* shutil.move(..., raw) before the Bazel build, shutil.move(..., res) after it
LoopMove(at, from, to, then) ==
    /\ pc = at
    /\ LET m == Move(from, to)
       IN /\ resource' = m.at
          /\ IF m.out = "ok" THEN pc' = then /\ UNCHANGED failure
             ELSE RaiseInTry(m.out)
    /\ UNCHANGED <<kickerVars, toolVars, buildVars, iter, idx, build_count, source_files, times, warmup,
                   builds, cleanups, appended, output>>

MoveToRaw == LoopMove("move_raw", "res", "raw", "build_bazel")
MoveToRes == LoopMove("move_res", "raw", "res", "build_gradle")

\* Mutant of TimedBuild: every time is appended to bazel_times.
TimedBuildIntoBazelTimes(at, sys, then, passes) ==
    /\ pc = at
    /\ proc.running
    /\ proc' = NoProc
    /\ \E returncode \in ReturnCodes, elapsed \in Durations :
          LET r == BuildSysBuild(returncode, elapsed)
          IN /\ Built(sys, "timed", returncode, r)
             /\ IF r.out = "ok"
                THEN /\ times' = [times EXCEPT !["Bazel"] = Append(@, r.time)]
                     /\ pc' = then
                     /\ iter' = iter + passes
                     /\ UNCHANGED failure
                ELSE /\ RaiseInTry(r.out)
                     /\ UNCHANGED <<times, iter>>
    /\ UNCHANGED <<kickerVars, toolVars, clock, frame, launches, returned, idx, resource, build_count, source_files, warmup,
                   cleanups, appended, output>>

\* <sys>_times.append(<sys>_build.build(...)): the process has exited.
TimedBuild(at, sys, then, passes) ==
    /\ pc = at
    /\ proc.running
    /\ proc' = NoProc
    /\ \E returncode \in ReturnCodes, elapsed \in Durations :
          LET r == BuildSysBuild(returncode, elapsed)
          IN /\ Built(sys, "timed", returncode, r)
             /\ IF r.out = "ok"
                THEN /\ times' = [times EXCEPT ![sys] = Append(@, r.time)]
                     /\ pc' = then
                     /\ iter' = iter + passes
                     /\ UNCHANGED failure
                ELSE /\ RaiseInTry(r.out)
                     /\ UNCHANGED <<times, iter>>
    /\ UNCHANGED <<kickerVars, toolVars, clock, frame, launches, returned, idx, resource, build_count, source_files, warmup,
                   cleanups, appended, output>>

TimedBazel == TimedBuild("build_bazel", "Bazel", "move_res", 0)
\* Mutant of TimedGradle: Buck2 is built in the place of Gradle.
TimedGradleBuildsBuck == TimedBuild("build_gradle", "Buck2", "build_buck", 0)
TimedGradle == TimedBuild("build_gradle", "Gradle", "build_buck", 0)
TimedBuck == TimedBuild("build_buck", "Buck2", "loop", 1)

\* finally: kicker.cleanup_all_dirty(), the opens of the files in `failing`
\* failing; what it prints is all that comes of a problem, and a pending
\* exception then leaves the script.
FinalCleanup(failing) ==
    /\ pc = "finally"
    /\ \E sample \in [dirty_files -> Names] :
          LET r == KickerCleanupAllDirty(fs, dirty_files, sample, failing)
          IN /\ fs' = r.fs
             /\ dirty_files' = r.dirty
             /\ trace' = Append(trace, Call("cleanup_all_dirty", <<>>, r, failing # {}, FALSE))
    /\ faults' = faults + Cardinality(failing)
    /\ cleanups' = cleanups + 1
    /\ pc' = IF failure = "none" THEN "stats" ELSE "exit"
    /\ UNCHANGED <<orig, resource0, toolVars, buildVars, iter, idx, resource, build_count, source_files,
                   times, warmup, builds, appended, failure, output>>

---------------------------------------------------------------------------
(* The measurement table as build_script.py writes it.  Text is a sequence *)
(* of characters; a duration is a whole number of tenths of a second.      *)

\* custom_colors, in the order of the dict.
CustomColors ==
    << [key |-> <<"B", "a", "z", "e", "l">>, value |-> <<"#", "4", "C", "A", "F", "5", "0">>],
       [key |-> <<"B", "u", "c", "k", "2">>, value |-> <<"#", "F", "F", "9", "8", "0", "0">>],
       [key |-> <<"G", "r", "a", "d", "l", "e">>, value |-> <<"#", "9", "C", "2", "7", "B", "0">>] >>
\* The list zipped with custom_colors.items(): bazel_times, buck_times, gradle_times.
TimesOrder == <<"Bazel", "Buck2", "Gradle">>

RECURSIVE Join(_, _)
\* sep.join(parts)
Join(parts, sep) ==
    IF parts = <<>> THEN <<>>
    ELSE IF Len(parts) = 1 THEN parts[1]
    ELSE parts[1] \o sep \o Join(Tail(parts), sep)

RECURSIVE StrInt(_)
\* str(n) of a natural number
StrInt(n) == IF n < 10 THEN <<Digits[n + 1]>> ELSE StrInt(n \div 10) \o <<Digits[(n % 10) + 1]>>

\* str(x) of the float of t tenths: "2.5", "1.0"
StrFloat(t) == StrInt(t \div 10) \o <<".">> \o StrInt(t % 10)

\* str(times) of a list of floats: "[1.0, 2.5]"
StrList(ts) ==
    <<"[">> \o Join([j \in DOMAIN ts |-> StrFloat(ts[j])], <<",", " ">>) \o <<"]">>

\* Mutant of QuoteField: no field is quoted.
QuoteFieldNever(f) == f

\* csv.writer, excel dialect, QUOTE_MINIMAL: a field that holds the delimiter,
\* the quote character or a line break is put in quotes, its quotes doubled.
QuoteField(f) ==
    IF \E k \in DOMAIN f : f[k] \in {",", "\"", "\r", "\n"}
    THEN <<"\"">>
         \o Join([k \in DOMAIN f |-> IF f[k] = "\"" THEN <<"\"", "\"">> ELSE <<f[k]>>], <<>>)
         \o <<"\"">>
    ELSE f

\* writer.writerow: the fields joined by "," and ended by "\r\n".
WriteRow(fields) ==
    Join([k \in DOMAIN fields |-> QuoteField(fields[k])], <<",">>) \o <<"\r", "\n">>

\* The text the script writes for the three lists of times.
WriteTable(ts) ==
    Join([k \in DOMAIN CustomColors |->
             WriteRow(<<CustomColors[k].key, CustomColors[k].value, StrList(ts[TimesOrder[k]])>>)],
         <<>>)

---------------------------------------------------------------------------

Finally == FinalCleanup({})

\* The warm-up times are printed, then statistics.mean of each list, which raises
\* StatisticsError on an empty list.
PrintStats ==
    /\ pc = "stats"
    /\ IF \E s \in Systems : times[s] = <<>>
       THEN /\ output' = output \cup {"warmup"}
            /\ Raise("StatisticsError")
       ELSE /\ output' = output \cup {"warmup", "stats"}
            /\ pc' = "csv"
            /\ UNCHANGED failure
    /\ UNCHANGED <<kickerVars, toolVars, buildVars, iter, idx, resource, build_count, source_files, times,
                   warmup, builds, cleanups, appended>>

\* The CSV file is written; an exception while writing is printed and swallowed.
WriteCsv ==
    /\ pc = "csv"
    /\ \E written \in BOOLEAN :
          /\ output' = output \cup {IF written THEN "csv" ELSE "csv_error"}
          /\ csv_file' = IF written THEN [exists |-> TRUE, bytes |-> WriteTable(times)]
                         ELSE csv_file
    /\ pc' = "exit"
    /\ UNCHANGED <<kickerVars, csv_read, stats, pom, pom_calls, buildVars, iter, idx, resource, build_count, source_files, times,
                   warmup, builds, cleanups, appended, failure>>

RunNext ==
    \/ StartBuild
    \/ WarmUpBazel \/ WarmUpMove \/ WarmUpGradle \/ WarmUpBuck
    \/ Discover
    \/ LoopHead \/ SkipFile \/ AppendFile \/ FilesDone
    \/ MoveToRaw \/ TimedBazel \/ MoveToRes \/ TimedGradle \/ TimedBuck
    \/ Finally
    \/ PrintStats \/ WriteCsv

RunSpec == RunInit /\ [][RunNext]_vars

\* RunFaultSpec: the run in an environment that may delete a mutated source file
\* while a build runs and may fail an open of the final cleanup.
FinallyWithFault ==
    \E failing \in SUBSET dirty_files :
        /\ failing # {}
        /\ faults + Cardinality(failing) <= MaxFaults
        /\ FinalCleanup(failing)

SourceDeleted ==
    /\ pc \in {"build_bazel", "build_gradle", "build_buck"}
    /\ proc.running
    /\ faults < MaxFaults
    /\ \E file \in dirty_files :
          /\ fs[file].exists
          /\ fs' = [fs EXCEPT ![file] = NoFile]
    /\ faults' = faults + 1
    /\ UNCHANGED <<dirty_files, trace, orig, resource0, toolVars, scriptVars>>

RunFaultNext == RunNext \/ FinallyWithFault \/ SourceDeleted

RunFaultSpec == RunInit /\ [][RunFaultNext]_vars

---------------------------------------------------------------------------
(* BuildSpec: calls of BuildSys.build and BuildSys.build_n_times, with the *)
(* external process taking time between its launch and its exit.           *)

\* RuntimeError(f"{self.build_sys} build failed: {result.stdout}")
BuildFailedMessage(build_sys, stdout) == <<build_sys, " build failed: ", stdout>>

\* What a finished call gave its caller: the exception and its message, or the
\* durations in the returned value (build returns one, None holds none).
Returned(out, message, durations, nlaunched) ==
    [method |-> frame.method, build_sys |-> frame.build_sys, n |-> frame.n, out |-> out,
     message |-> message, durations |-> durations,
     first |-> frame.first, launched |-> nlaunched]

\* The state in which a BuildSys object has been constructed.
BuildInit ==
    /\ fs = <<>>
    /\ dirty_files = {}
    /\ trace = <<>>
    /\ faults = 0
    /\ orig = fs
    /\ IdleScript

\* build(build_cmd, target, args) is called: execute launches the process.
CallBuild ==
    /\ frame.method = "none"
    /\ Len(returned) < MaxBuildCalls
    /\ \E call \in DOMAIN BuildCalls :
          /\ frame' = [method |-> "build", build_sys |-> BuildCalls[call].build_sys,
                       call |-> call, n |-> 1, i |-> 0, first |-> Len(launches)]
          /\ proc' = Launch(call)
    /\ UNCHANGED <<kickerVars, toolVars, pc, iter, idx, resource, build_count, source_files, times,
                   warmup, builds, cleanups, appended, failure, output,
                   clock, launches, returned>>

\* build_n_times(build_cmd, n, target, args) is called: range(n) is empty and
\* None is returned, or the first build launches its process.
CallBuildNTimes ==
    /\ frame.method = "none"
    /\ Len(returned) < MaxBuildCalls
    /\ \E call \in DOMAIN BuildCalls, n \in 0..MaxBuilds :
          LET f == [method |-> "build_n_times", build_sys |-> BuildCalls[call].build_sys,
                    call |-> call, n |-> n, i |-> 0, first |-> Len(launches)]
          IN IF n = 0
             THEN /\ returned' = Append(returned,
                                        [method |-> f.method, build_sys |-> f.build_sys,
                                         n |-> 0, out |-> "ok", message |-> <<>>,
                                         durations |-> <<>>, first |-> f.first,
                                         launched |-> 0])
                  /\ UNCHANGED <<frame, proc>>
             ELSE /\ frame' = f
                  /\ proc' = Launch(call)
                  /\ UNCHANGED returned
    /\ UNCHANGED <<kickerVars, toolVars, pc, iter, idx, resource, build_count, source_files, times,
                   warmup, builds, cleanups, appended, failure, output, clock, launches>>

\* Time passes while subprocess.run waits for the process.
Tick ==
    /\ proc.running
    /\ clock < MaxClock
    /\ clock' = clock + 1
    /\ UNCHANGED <<kickerVars, toolVars, pc, iter, idx, resource, build_count, source_files, times,
                   warmup, builds, cleanups, appended, failure, output,
                   proc, frame, launches, returned>>

\* The process has exited with `returncode`, having printed `stdout`.
Exited(returncode, stdout) ==
    [command |-> proc.command, start |-> proc.start, end |-> clock,
     returncode |-> returncode, stdout |-> stdout]

\* Mutant of ProcessExits: a failed build is retried once.
ProcessExitsRetrying ==
    /\ proc.running
    /\ \E returncode \in ReturnCodes, stdout \in Stdouts :
          LET r == BuildSysBuild(returncode, clock - proc.start)
              nlaunched == Len(launches) + 1 - frame.first
          IN /\ launches' = Append(launches, Exited(returncode, stdout))
             /\ IF r.out # "ok" /\ nlaunched < 2
                THEN /\ proc' = Launch(frame.call)
                     /\ UNCHANGED <<frame, returned>>
                ELSE /\ returned' = Append(returned,
                           IF r.out # "ok"
                           THEN Returned(r.out, BuildFailedMessage(frame.build_sys, stdout),
                                         <<>>, nlaunched)
                           ELSE Returned("ok", <<>>, <<r.time>>, nlaunched))
                     /\ frame' = NoFrame
                     /\ proc' = NoProc
    /\ UNCHANGED <<kickerVars, toolVars, pc, iter, idx, resource, build_count, source_files, times,
                   warmup, builds, cleanups, appended, failure, output, clock>>

\* subprocess.run returns: execute returns (result, end - start) to build, which
\* raises RuntimeError with the captured output or returns the time; in
\* build_n_times the returned time is dropped and the loop goes on to the next
\* build, or ends and None is returned.
ProcessExits ==
    /\ proc.running
    /\ \E returncode \in ReturnCodes, stdout \in Stdouts :
          LET r == BuildSysBuild(returncode, clock - proc.start)
              nlaunched == Len(launches) + 1 - frame.first
          IN /\ launches' = Append(launches, Exited(returncode, stdout))
             /\ IF r.out # "ok"
                THEN /\ returned' = Append(returned,
                           Returned(r.out, BuildFailedMessage(frame.build_sys, stdout),
                                    <<>>, nlaunched))
                     /\ frame' = NoFrame
                     /\ proc' = NoProc
                ELSE IF frame.method = "build"
                THEN /\ returned' = Append(returned,
                                           Returned("ok", <<>>, <<r.time>>, nlaunched))
                     /\ frame' = NoFrame
                     /\ proc' = NoProc
                ELSE IF frame.i + 1 < frame.n
                THEN /\ frame' = [frame EXCEPT !.i = @ + 1]
                     /\ proc' = Launch(frame.call)
                     /\ UNCHANGED returned
                ELSE /\ returned' = Append(returned, Returned("ok", <<>>, <<>>, nlaunched))
                     /\ frame' = NoFrame
                     /\ proc' = NoProc
    /\ UNCHANGED <<kickerVars, toolVars, pc, iter, idx, resource, build_count, source_files, times,
                   warmup, builds, cleanups, appended, failure, output, clock>>

BuildNext == CallBuild \/ CallBuildNTimes \/ Tick \/ ProcessExits

BuildSpec == BuildInit /\ [][BuildNext]_vars

---------------------------------------------------------------------------
(* read_csv_data of build_visualiser.py and create_summary_stats of        *)
(* build_html_visualiser.py.                                               *)

\* open(csv_file, "r"): "\r\n" and a lone "\r" are read as "\n".
UniversalNewlines(text) ==
    LET marked == [k \in DOMAIN text |->
                      [c |-> IF text[k] = "\r" THEN "\n" ELSE text[k],
                       keep |-> ~(text[k] = "\n" /\ k > 1 /\ text[k - 1] = "\r")]]
        kept == SelectSeq(marked, LAMBDA m : m.keep)
    IN  [k \in DOMAIN kept |-> kept[k].c]

\* csv.reader, excel dialect, not strict: the state before any character.
StartRecord == [state |-> "START_RECORD", field |-> <<>>, row |-> <<>>, rows |-> <<>>]

\* csv.reader: one character taken in state p.
ProcessChar(p, c) ==
    LET saved == Append(p.row, p.field)
        endRecord == [state |-> "START_RECORD", field |-> <<>>, row |-> <<>>,
                      rows |-> Append(p.rows, saved)]
        endField == [p EXCEPT !.state = "START_FIELD", !.field = <<>>, !.row = saved]
        add(st) == [p EXCEPT !.state = st, !.field = Append(@, c)]
    IN  CASE p.state = "START_RECORD" /\ c = "\n" -> [p EXCEPT !.rows = Append(@, <<>>)]
          [] p.state \in {"START_RECORD", "START_FIELD"} /\ c = "\n" -> endRecord
          [] p.state \in {"START_RECORD", "START_FIELD"} /\ c = "\"" ->
                 [p EXCEPT !.state = "IN_QUOTED_FIELD"]
          [] p.state \in {"START_RECORD", "START_FIELD"} /\ c = "," -> endField
          [] p.state \in {"START_RECORD", "START_FIELD"} /\ c \notin {"\n", "\"", ","} ->
                 add("IN_FIELD")
          [] p.state = "IN_FIELD" /\ c = "\n" -> endRecord
          [] p.state = "IN_FIELD" /\ c = "," -> endField
          [] p.state = "IN_FIELD" /\ c \notin {"\n", ","} -> add("IN_FIELD")
          [] p.state = "IN_QUOTED_FIELD" /\ c = "\"" ->
                 [p EXCEPT !.state = "QUOTE_IN_QUOTED_FIELD"]
          [] p.state = "IN_QUOTED_FIELD" /\ c # "\"" -> add("IN_QUOTED_FIELD")
          [] p.state = "QUOTE_IN_QUOTED_FIELD" /\ c = "\"" -> add("IN_QUOTED_FIELD")
          [] p.state = "QUOTE_IN_QUOTED_FIELD" /\ c = "," -> endField
          [] p.state = "QUOTE_IN_QUOTED_FIELD" /\ c = "\n" -> endRecord
          [] p.state = "QUOTE_IN_QUOTED_FIELD" /\ c \notin {"\"", ",", "\n"} -> add("IN_FIELD")

RECURSIVE ProcessChars(_, _, _, _)
\* csv.reader: the characters text[lo..hi] taken in turn from state p.
ProcessChars(p, text, lo, hi) ==
    IF lo > hi THEN p
    ELSE IF lo = hi THEN ProcessChar(p, text[lo])
    ELSE LET mid == (lo + hi) \div 2
             q == ProcessChars(p, text, lo, mid)
         IN  \* q is computed before the second half is entered
             IF q.state = "" THEN q ELSE ProcessChars(q, text, mid + 1, hi)

\* csv.reader over the whole text; a record the text ends in is returned as it is.
ProcessText(p, text) ==
    LET q == ProcessChars(p, text, 1, Len(text))
    IN  IF q.state = "START_RECORD" THEN q.rows ELSE Append(q.rows, Append(q.row, q.field))

\* csv.DictReader(csvfile, fieldnames=fieldnames): the rows of the file, each a
\* list of fields; a row without fields (a blank line) is skipped.
DictReader(text) ==
    SelectSeq(ProcessText(StartRecord, UniversalNewlines(text)), LAMBDA r : r # <<>>)

\* str.strip(): white space removed at both ends.
WhiteSpace == {" ", "\t", "\n", "\r"}
RECURSIVE LStrip(_)
LStrip(t) == IF t # <<>> /\ t[1] \in WhiteSpace THEN LStrip(Tail(t)) ELSE t
RECURSIVE RStrip(_)
RStrip(t) == IF t # <<>> /\ t[Len(t)] \in WhiteSpace THEN RStrip(SubSeq(t, 1, Len(t) - 1)) ELSE t
Strip(t) == LStrip(RStrip(t))

\* re.match(r"^#([0-9A-Fa-f]{3}|[0-9A-Fa-f]{6})$", color)
IsHexColor(c) ==
    /\ Len(c) \in {4, 7}
    /\ c[1] = "#"
    /\ \A k \in 2..Len(c) :
           c[k] \in {Digits[j] : j \in 1..10} \cup {"A", "B", "C", "D", "E", "F"}
                    \cup {"a", "b", "c", "d", "e", "f"}

RECURSIVE Split(_, _)
\* t.split(sep) for a one-character separator
Split(t, sep) ==
    IF \A k \in DOMAIN t : t[k] # sep THEN <<t>>
    ELSE LET k == CHOOSE k \in DOMAIN t : t[k] = sep /\ \A j \in 1..(k - 1) : t[j] # sep
         IN  <<SubSeq(t, 1, k - 1)>> \o Split(SubSeq(t, k + 1, Len(t)), sep)

IsDigits(t) == t # <<>> /\ \A k \in DOMAIN t : t[k] \in {Digits[j] : j \in 1..10}
DigitValue(c) == (CHOOSE j \in 1..10 : Digits[j] = c) - 1
RECURSIVE IntValue(_)
IntValue(t) == IF t = <<>> THEN 0 ELSE 10 * IntValue(SubSeq(t, 1, Len(t) - 1)) + DigitValue(t[Len(t)])

\* A decimal number as Python writes it: an optional sign, digits, and at
\* most one digit after a point ("3", "4.2", "-1.0"); the durations of the
\* model have no more.
IsNumber(t) ==
    LET u == IF t # <<>> /\ t[1] \in {"-", "+"} THEN Tail(t) ELSE t
        parts == Split(u, ".")
    IN  \/ IsDigits(u)
        \/ /\ Len(parts) = 2
           /\ IsDigits(parts[1])
           /\ parts[2] = <<>> \/ (Len(parts[2]) = 1 /\ IsDigits(parts[2]))

\* The value of such a number, in tenths.
NumberValue(t) ==
    LET u == IF t[1] \in {"-", "+"} THEN Tail(t) ELSE t
        parts == Split(u, ".")
        tenths == 10 * IntValue(parts[1]) + (IF Len(parts) = 2 THEN IntValue(parts[2]) ELSE 0)
    IN  IF t[1] = "-" THEN 0 - tenths ELSE tenths

\* ast.literal_eval of one element of a list display: a number, a string in
\* single or double quotes, True, False, None, a nested list; anything else
\* is not a literal.
LiteralItem(t) ==
    CASE IsNumber(t) -> [kind |-> "number", value |-> NumberValue(t)]
      [] Len(t) >= 2 /\ t[1] \in {"'", "\""} /\ t[Len(t)] = t[1]
         /\ (\A k \in 2..(Len(t) - 1) : t[k] \notin {t[1], "\\"}) ->
             [kind |-> "str", value |-> SubSeq(t, 2, Len(t) - 1)]
      [] t = <<"T", "r", "u", "e">> -> [kind |-> "bool", value |-> 10]
      [] t = <<"F", "a", "l", "s", "e">> -> [kind |-> "bool", value |-> 0]
      [] t = <<"N", "o", "n", "e">> -> [kind |-> "None", value |-> 0]
      [] Len(t) >= 2 /\ t[1] = "[" /\ t[Len(t)] = "]" -> [kind |-> "list", value |-> 0]
      [] OTHER -> [kind |-> "invalid", value |-> 0]

\* float(x): a number is taken as it is, a bool becomes 1.0 or 0.0, a string
\* is stripped and parsed as a number (ValueError if it is none), None and a
\* list raise TypeError.
Float(x) ==
    CASE x.kind \in {"number", "bool"} -> [raised |-> "none", value |-> x.value]
      [] x.kind = "str" /\ IsNumber(Strip(x.value)) ->
             [raised |-> "none", value |-> NumberValue(Strip(x.value))]
      [] x.kind = "str" /\ ~IsNumber(Strip(x.value)) -> [raised |-> "ValueError", value |-> 0]
      [] OTHER -> [raised |-> "TypeError", value |-> 0]

\* The elements of the list display t = "[...]": the text between the
\* brackets cut at the commas, one comma allowed after the last element.
ListItems(t) ==
    LET inner == Strip(SubSeq(t, 2, Len(t) - 1))
        pieces == Split(inner, ",")
        cut == IF Len(pieces) > 1 /\ Strip(pieces[Len(pieces)]) = <<>>
               THEN SubSeq(pieces, 1, Len(pieces) - 1) ELSE pieces
    IN  IF inner = <<>> THEN <<>> ELSE [k \in DOMAIN cut |-> LiteralItem(Strip(cut[k]))]

\* _parse_row, the measurements: ast.literal_eval(measurements_str) must give
\* a list, and float(x) a value for each element; ValueError and SyntaxError
\* end the program in _parse_row, any other exception in read_csv_data.
ParseMeasurements(t) ==
    IF ~(Len(t) >= 2 /\ t[1] = "[" /\ t[Len(t)] = "]")
    THEN [ok |-> FALSE, values |-> <<>>]
    ELSE LET items == ListItems(t)
         IN  IF \E k \in DOMAIN items :
                    items[k].kind = "invalid" \/ Float(items[k]).raised # "none"
             THEN [ok |-> FALSE, values |-> <<>>]
             ELSE [ok |-> TRUE, values |-> [k \in DOMAIN items |-> Float(items[k]).value]]

\* _parse_row: the three fields stripped; ok is FALSE where the code calls sys.exit(1).
ParseRow(row) ==
    LET build_system == Strip(row[1])
        color == Strip(row[2])
        m == ParseMeasurements(Strip(row[3]))
    IN  [ok |-> build_system # <<>> /\ IsHexColor(color) /\ m.ok,
         build_system |-> build_system, color |-> color, measurements |-> m.values]

\* d[key] = value of a dict, kept as the sequence of its items: a key already
\* present keeps its place and takes the new value.
SetItem(d, key, value) ==
    IF \E k \in DOMAIN d : d[k].key = key
    THEN [k \in DOMAIN d |-> IF d[k].key = key THEN [key |-> key, value |-> value] ELSE d[k]]
    ELSE Append(d, [key |-> key, value |-> value])

RECURSIVE Collect(_, _)
\* The loop of read_csv_data: data[build_system] = measurements and
\* colors[build_system] = color, row after row.
Collect(rows, d) ==
    IF rows = <<>> THEN d
    ELSE LET r == ParseRow(rows[1])
         IN  Collect(Tail(rows), [data |-> SetItem(d.data, r.build_system, r.measurements),
                                  colors |-> SetItem(d.colors, r.build_system, r.color)])

Exit1 == [exit |-> 1, called |-> TRUE, data |-> <<>>, colors |-> <<>>]

\* read_csv_data(csv_file): exit status 1 for a missing file, a row that has
\* not three columns or that _parse_row refuses, no data, lists of different
\* lengths, empty lists; otherwise (data, colors).
ReadCsvData(file) ==
    IF ~file.exists THEN Exit1
    ELSE LET rows == DictReader(file.bytes)
         IN  IF \E k \in DOMAIN rows : Len(rows[k]) # 3 \/ ~ParseRow(rows[k]).ok
             THEN Exit1
             ELSE LET d == Collect(rows, [data |-> <<>>, colors |-> <<>>])
                  IN  IF \/ d.data = <<>>
                         \/ Cardinality({Len(d.data[k].value) : k \in DOMAIN d.data}) # 1
                         \/ Len(d.data[1].value) = 0
                      THEN Exit1
                      ELSE [exit |-> 0, called |-> TRUE, data |-> d.data, colors |-> d.colors]

RECURSIVE GCD(_, _)
GCD(a, b) == IF b = 0 THEN a ELSE GCD(b, a % b)
Abs(a) == IF a < 0 THEN 0 - a ELSE a
\* The exact quotient n / d, d > 0, in lowest terms.
Frac(n, d) == LET g == GCD(Abs(n), d) IN [num |-> n \div g, den |-> d \div g]
FracLe(a, b) == a.num * b.den <= b.num * a.den

RECURSIVE Sum(_)
Sum(ts) == IF ts = <<>> THEN 0 ELSE ts[1] + Sum(Tail(ts))

RECURSIVE Sorted(_)
\* sorted(ts)
Sorted(ts) ==
    IF ts = <<>> THEN <<>>
    ELSE LET k == CHOOSE k \in DOMAIN ts : \A j \in DOMAIN ts : ts[k] <= ts[j]
         IN  <<ts[k]>> \o Sorted([j \in 1..(Len(ts) - 1) |-> IF j < k THEN ts[j] ELSE ts[j + 1]])

\* statistics.mean(ts)
Mean(ts) == Frac(Sum(ts), Len(ts))

\* Mutant of Median: the upper of the two middle values of a list of even length.
MedianHigh(ts) == Frac(Sorted(ts)[(Len(ts) \div 2) + 1], 1)

\* statistics.median(ts): the middle value, or the mean of the two middle values.
Median(ts) ==
    LET d == Sorted(ts)
        n == Len(ts)
    IN  IF n % 2 = 1 THEN Frac(d[(n \div 2) + 1], 1)
        ELSE Frac(d[n \div 2] + d[(n \div 2) + 1], 2)

\* min(ts), max(ts)
Min(ts) == CHOOSE x \in {ts[k] : k \in DOMAIN ts} : \A k \in DOMAIN ts : x <= ts[k]
Max(ts) == CHOOSE x \in {ts[k] : k \in DOMAIN ts} : \A k \in DOMAIN ts : x >= ts[k]

\* statistics.stdev(ts) if len(ts) > 1 else 0, kept by its square, which is
\* exact: the sample variance, sum((x - mean)^2) / (n - 1).
StdDev(ts) ==
    LET n == Len(ts)
    IN  IF n > 1
        THEN [squared |-> Frac(n * Sum([k \in DOMAIN ts |-> ts[k] * ts[k]]) - Sum(ts) * Sum(ts),
                               n * (n - 1))]
        ELSE [squared |-> Frac(0, 1)]

\* create_summary_stats(build_data)
CreateSummaryStats(build_data) ==
    [k \in DOMAIN build_data |->
        [key |-> build_data[k].key,
         value |-> [mean |-> Mean(build_data[k].value),
                    median |-> Median(build_data[k].value),
                    min |-> Min(build_data[k].value),
                    max |-> Max(build_data[k].value),
                    std_dev |-> StdDev(build_data[k].value),
                    count |-> Len(build_data[k].value)]]]

---------------------------------------------------------------------------
(* CsvSpec: a measurement file is written by build_script.py or given,     *)
(* read by read_csv_data, and summarised by create_summary_stats.          *)

\* Rows of the given files and lengths of the written lists.
MaxRows == 2
MaxMeasurements == 2
\* The durations written: 0.5 s, 1.0 s, 12.5 s.
WrittenDurations == {5, 10, 125}

\* Rows a given file is made of.
GivenRows ==
    << <<"B", "a", "z", "e", "l", ",", "#", "4", "C", "A", "F", "5", "0", ",", "\"", "[", "1", ".", "0", ",", " ", "2", ".", "5", "]", "\"", "\r", "\n">>,
       <<"B", "u", "c", "k", "2", ",", "#", "A", "B", "C", ",", "[", "1", ".", "0", "]", "\r", "\n">>,
       <<"B", "a", "z", "e", "l", ",", "#", "F", "F", "9", "8", "0", "0", ",", "[", "0", ".", "5", "]", "\r", "\n">>,
       <<"G", "r", "a", "d", "l", "e", ",", "#", "9", "C", "2", "7", "B", "0", ",", "[", "'", "1", ".", "0", "'", "]", "\r", "\n">>,
       <<"G", "r", "a", "d", "l", "e", ",", "#", "9", "c", "2", "7", "b", "0", ",", "[", "T", "r", "u", "e", "]", "\r", "\n">>,
       <<"B", "u", "c", "k", "2", ",", "#", "F", "F", "9", "8", "0", ",", "[", "1", ".", "0", "]", "\r", "\n">>,
       <<",", "#", "A", "B", "C", ",", "[", "1", ".", "0", "]", "\r", "\n">>,
       <<"B", "u", "c", "k", "2", ",", "#", "A", "B", "C", "\r", "\n">>,
       <<"B", "u", "c", "k", "2", ",", "#", "A", "B", "C", ",", "[", "1", ".", "0", "]", ",", "x", "\r", "\n">>,
       <<"B", "u", "c", "k", "2", ",", "#", "A", "B", "C", ",", "[", "]", "\r", "\n">>,
       <<"B", "u", "c", "k", "2", ",", "#", "A", "B", "C", ",", "(", "1", ".", "0", ")", "\r", "\n">>,
       <<"B", "u", "c", "k", "2", ",", "#", "A", "B", "C", ",", "[", "x", "]", "\r", "\n">>,
       <<"\r", "\n">>,
       <<"G", "r", "a", "d", "l", "e", " ", ",", " ", "#", "A", "B", "C", " ", ",", "\"", " ", "[", "2", ".", "5", ",", " ", "1", "]", " ", "\"", "\n">> >>

GivenFiles ==
    {Join([k \in DOMAIN f |-> GivenRows[f[k]]], <<>>) :
        f \in UNION {[1..n -> DOMAIN GivenRows] : n \in 0..MaxRows}}

CsvInit ==
    /\ fs = <<>>
    /\ dirty_files = {}
    /\ trace = <<>>
    /\ faults = 0
    /\ orig = fs
    /\ IdleBuildSys
    /\ iter = 0
    /\ idx = 0
    /\ resource = "raw"
    /\ resource0 = resource
    /\ build_count = 0
    /\ source_files = <<>>
    /\ warmup = <<>>
    /\ builds = <<>>
    /\ cleanups = 0
    /\ appended = <<>>
    /\ failure = "none"
    /\ output = {}
    /\ csv_read = NotRead
    /\ stats = <<>>
    /\ pom = NoPom
    /\ pom_calls = <<>>
    /\ \/ /\ pc = "csv"
          /\ times \in UNION {[Systems -> [1..m -> WrittenDurations]] : m \in 1..MaxMeasurements}
          /\ csv_file = [exists |-> FALSE, bytes |-> <<>>]
       \/ /\ pc = "idle"
          /\ times = [s \in Systems |-> <<>>]
          /\ \/ csv_file = [exists |-> FALSE, bytes |-> <<>>]
             \/ \E text \in GivenFiles : csv_file = [exists |-> TRUE, bytes |-> text]

\* build_visualiser.py / build_html_visualiser.py: read_csv_data(args.csv_file)
CsvRead ==
    /\ ~csv_read.called
    /\ csv_read' = ReadCsvData(csv_file)
    /\ UNCHANGED <<kickerVars, scriptVars, csv_file, stats, pom, pom_calls>>

\* create_html_report: stats = create_summary_stats(build_data)
SummaryStats ==
    /\ csv_read.called
    /\ csv_read.exit = 0
    /\ stats = <<>>
    /\ stats' = CreateSummaryStats(csv_read.data)
    /\ UNCHANGED <<kickerVars, scriptVars, csv_file, csv_read, pom, pom_calls>>

CsvNext == WriteCsv \/ CsvRead \/ SummaryStats

CsvSpec == CsvInit /\ [][CsvNext]_vars

---------------------------------------------------------------------------
(* modify_pom_versions.py and modify_pom_versions_string.py.  A POM is     *)
(* the sequence of its <dependency> elements in document order; a version  *)
(* is a sequence of characters.                                            *)

\* VERSION_OVERRIDES, in the order of the dict.
VERSION_OVERRIDES ==
    << [key |-> "org.jetbrains.kotlin:kotlin-stdlib", value |-> <<"2", ".", "1", ".", "0">>],
       [key |-> "org.jetbrains.kotlin:kotlin-stdlib-common", value |-> <<"2", ".", "1", ".", "0">>],
       [key |-> "org.jetbrains.kotlin:kotlin-stdlib-jdk7", value |-> <<"2", ".", "1", ".", "0">>],
       [key |-> "org.jetbrains.kotlin:kotlin-stdlib-jdk8", value |-> <<"2", ".", "1", ".", "0">>],
       [key |-> "androidx.lifecycle:lifecycle-common", value |-> <<"2", ".", "9", ".", "2">>],
       [key |-> "androidx.lifecycle:lifecycle-runtime", value |-> <<"2", ".", "9", ".", "2">>],
       [key |-> "androidx.lifecycle:lifecycle-viewmodel", value |-> <<"2", ".", "9", ".", "2">>],
       [key |-> "androidx.emoji2:emoji2", value |-> <<"1", ".", "4", ".", "0">>],
       [key |-> "androidx.collection:collection", value |-> <<"1", ".", "5", ".", "0">>],
       [key |-> "androidx.collection:collection-jvm", value |-> <<"1", ".", "5", ".", "0">>],
       [key |-> "androidx.compose.runtime:runtime", value |-> <<"1", ".", "8", ".", "3">>],
       [key |-> "androidx.compose.ui:ui-geometry", value |-> <<"1", ".", "8", ".", "3">>],
       [key |-> "androidx.compose.ui:ui-graphics", value |-> <<"1", ".", "8", ".", "3">>],
       [key |-> "androidx.compose.ui:ui-text", value |-> <<"1", ".", "8", ".", "3">>],
       [key |-> "androidx.compose.ui:ui-unit", value |-> <<"1", ".", "8", ".", "3">>],
       [key |-> "androidx.compose.ui:ui-util", value |-> <<"1", ".", "8", ".", "3">>],
       [key |-> "androidx.savedstate:savedstate", value |-> <<"1", ".", "3", ".", "1">>],
       [key |-> "androidx.compose.animation:animation-core", value |-> <<"1", ".", "8", ".", "3">>] >>

HasOverride(dep_key) == \E k \in DOMAIN VERSION_OVERRIDES : VERSION_OVERRIDES[k].key = dep_key
OverrideOf(dep_key) ==
    VERSION_OVERRIDES[CHOOSE k \in DOMAIN VERSION_OVERRIDES :
                          VERSION_OVERRIDES[k].key = dep_key].value

\* current_version.startswith("[") and current_version.endswith("]")
IsRange(v) == v # <<>> /\ v[1] = "[" /\ v[Len(v)] = "]"

\* The entry appended to changes: f"  {dep_key}: {current_version} -> {new_version}"
Change(dep_key, current_version, new_version) ==
    [dep_key |-> dep_key, from |-> current_version, to |-> new_version]

\* Mutant of Saved: the file is written whenever something was modified.
SavedAlways(modified, dry_run) == modified

\* `if modified and not dry_run:` before tree.write / f.write
Saved(modified, dry_run) == modified /\ ~dry_run

\* modify_pom_file, the body of either loop for the dependency at position i:
\* an element with groupId, artifactId and version whose key is overridden,
\* whose version is no range and differs from the new one, is reported, and
\* its text is set unless dry_run.
VisitDependency(st, i, dry_run) ==
    LET d == st.deps[i]
    IN  IF /\ d.version_elem
           /\ HasOverride(d.dep_key)
           /\ ~IsRange(d.version)
           /\ d.version # OverrideOf(d.dep_key)
        THEN [deps |-> IF dry_run THEN st.deps
                       ELSE [st.deps EXCEPT ![i].version = OverrideOf(d.dep_key)],
              changes |-> Append(st.changes, Change(d.dep_key, d.version, OverrideOf(d.dep_key))),
              modified |-> TRUE]
        ELSE st

RECURSIVE Visit(_, _, _)
Visit(st, order, dry_run) ==
    IF order = <<>> THEN st
    ELSE Visit(VisitDependency(st, order[1], dry_run), Tail(order), dry_run)

\* The dependencies the two loops of modify_pom_file come to, in turn:
\* root.findall(".//maven:dependencies") finds every <dependencies> element,
\* those inside <dependencyManagement> too, and the second loop finds these
\* again.  The prefix "maven" stands for the POM namespace: in a file without
\* that namespace nothing is found.
VisitOrder(file) ==
    IF ~file.namespaced THEN <<>>
    ELSE [i \in DOMAIN file.deps |-> i]
         \o SelectSeq([i \in DOMAIN file.deps |-> i], LAMBDA i : file.deps[i].managed)

\* modify_pom_file(pom_path, dry_run): (modified, changes) and the file
\* afterwards; a file that cannot be parsed gives (False, []).
ModifyPomFile(file, dry_run) ==
    IF ~file.exists THEN [modified |-> FALSE, changes |-> <<>>, file |-> file]
    ELSE LET st == Visit([deps |-> file.deps, changes |-> <<>>, modified |-> FALSE],
                         VisitOrder(file), dry_run)
         IN  [modified |-> st.modified, changes |-> st.changes,
              file |-> IF Saved(st.modified, dry_run)
                       THEN [file EXCEPT !.deps = st.deps, !.rewritten = TRUE]
                       ELSE file]

\* modify_pom_file_string, re.sub for one key: the pattern matches a
\* <dependency> whose groupId, artifactId and version follow one another in
\* this order; replace_version leaves a range and the target version alone.
ReplaceVersion(st, i, dep_key) ==
    LET d == st.deps[i]
    IN  IF /\ d.dep_key = dep_key
           /\ d.version_elem /\ d.in_order /\ d.version # <<>>
           /\ ~IsRange(d.version)
           /\ d.version # OverrideOf(dep_key)
        THEN [deps |-> [st.deps EXCEPT ![i].version = OverrideOf(dep_key)],
              changes |-> Append(st.changes, Change(dep_key, d.version, OverrideOf(dep_key)))]
        ELSE st

RECURSIVE Sub(_, _, _)
\* re.sub(pattern, replace_version, content): the matches from position i on.
Sub(st, i, dep_key) ==
    IF i > Len(st.deps) THEN st ELSE Sub(ReplaceVersion(st, i, dep_key), i + 1, dep_key)

RECURSIVE SubAll(_, _)
\* for dep_key, target_version in VERSION_OVERRIDES.items(): from entry k on.
SubAll(st, k) ==
    IF k > Len(VERSION_OVERRIDES) THEN st
    ELSE SubAll(Sub(st, 1, VERSION_OVERRIDES[k].key), k + 1)

\* modify_pom_file_string(pom_path, dry_run)
ModifyPomFileString(file, dry_run) ==
    IF ~file.exists THEN [modified |-> FALSE, changes |-> <<>>, file |-> file]
    ELSE LET st == SubAll([deps |-> file.deps, changes |-> <<>>], 1)
             modified == st.deps # file.deps
         IN  [modified |-> modified, changes |-> st.changes,
              file |-> IF Saved(modified, dry_run)
                       THEN [file EXCEPT !.deps = st.deps, !.rewritten = TRUE]
                       ELSE file]

---------------------------------------------------------------------------
(* PomSpec: calls of modify_pom_file and modify_pom_file_string on a POM.  *)

\* Dependencies of the POM and calls per behaviour.
MaxDeps == 2
MaxPomCalls == 2

\* The <dependency> elements a POM is made of.
GivenDeps ==
    << [dep_key |-> "org.jetbrains.kotlin:kotlin-stdlib", version_elem |-> TRUE, version |-> <<"1", ".", "4", ".", "0">>,
        managed |-> FALSE, in_order |-> TRUE],
       [dep_key |-> "org.jetbrains.kotlin:kotlin-stdlib", version_elem |-> TRUE, version |-> <<"1", ".", "4", ".", "0">>,
        managed |-> TRUE, in_order |-> TRUE],
       [dep_key |-> "org.jetbrains.kotlin:kotlin-stdlib", version_elem |-> TRUE, version |-> <<"2", ".", "1", ".", "0">>,
        managed |-> FALSE, in_order |-> TRUE],
       [dep_key |-> "org.jetbrains.kotlin:kotlin-stdlib", version_elem |-> TRUE, version |-> <<"[", "1", ".", "0", ",", "2", ".", "0", "]">>,
        managed |-> TRUE, in_order |-> TRUE],
       [dep_key |-> "androidx.emoji2:emoji2", version_elem |-> TRUE, version |-> <<"2", ".", "1", ".", "0">>,
        managed |-> TRUE, in_order |-> TRUE],
       [dep_key |-> "androidx.emoji2:emoji2", version_elem |-> FALSE, version |-> <<>>,
        managed |-> FALSE, in_order |-> TRUE],
       [dep_key |-> "junit:junit", version_elem |-> TRUE, version |-> <<"1", ".", "4", ".", "0">>,
        managed |-> FALSE, in_order |-> TRUE],
       [dep_key |-> "org.jetbrains.kotlin:kotlin-stdlib", version_elem |-> TRUE, version |-> <<"1", ".", "4", ".", "0">>,
        managed |-> FALSE, in_order |-> FALSE] >>

PomInit ==
    /\ fs = <<>>
    /\ dirty_files = {}
    /\ trace = <<>>
    /\ faults = 0
    /\ orig = fs
    /\ IdleBuildSys
    /\ pc = "idle"
    /\ iter = 0
    /\ idx = 0
    /\ resource = "raw"
    /\ resource0 = resource
    /\ build_count = 0
    /\ source_files = <<>>
    /\ times = [s \in Systems |-> <<>>]
    /\ warmup = <<>>
    /\ builds = <<>>
    /\ cleanups = 0
    /\ appended = <<>>
    /\ failure = "none"
    /\ output = {}
    /\ csv_file = [exists |-> FALSE, bytes |-> <<>>]
    /\ csv_read = NotRead
    /\ stats = <<>>
    /\ pom_calls = <<>>
    /\ \/ pom = NoPom
       \/ \E namespaced \in BOOLEAN :
          \E f \in UNION {[1..n -> DOMAIN GivenDeps] : n \in 0..MaxDeps} :
              pom = [exists |-> TRUE, namespaced |-> namespaced,
                     deps |-> [k \in DOMAIN f |-> GivenDeps[f[k]]], rewritten |-> FALSE]

\* The record of a call: what was called on which file, and what came of it.
PomCall(fn, dry_run, r) ==
    [fn |-> fn, dry_run |-> dry_run, before |-> pom, after |-> r.file,
     modified |-> r.modified, changes |-> r.changes]

\* modify_pom_versions.py: modify_pom_file(pom_file, dry_run=args.dry_run)
CallModifyPomFile ==
    /\ Len(pom_calls) < MaxPomCalls
    /\ \E dry_run \in BOOLEAN :
          LET r == ModifyPomFile(pom, dry_run)
          IN  /\ pom' = r.file
              /\ pom_calls' = Append(pom_calls, PomCall("modify_pom_file", dry_run, r))
    /\ UNCHANGED <<kickerVars, scriptVars, csv_file, csv_read, stats>>

\* modify_pom_versions_string.py: modify_pom_file_string(pom_file, dry_run=args.dry_run)
CallModifyPomFileString ==
    /\ Len(pom_calls) < MaxPomCalls
    /\ \E dry_run \in BOOLEAN :
          LET r == ModifyPomFileString(pom, dry_run)
          IN  /\ pom' = r.file
              /\ pom_calls' = Append(pom_calls, PomCall("modify_pom_file_string", dry_run, r))
    /\ UNCHANGED <<kickerVars, scriptVars, csv_file, csv_read, stats>>

PomNext == CallModifyPomFile \/ CallModifyPomFileString

PomSpec == PomInit /\ [][PomNext]_vars

---------------------------------------------------------------------------
(* Properties of the kicker, over the calls recorded in trace.             *)

\* The file system and the dirty set right after call i.
FsAfter(i) == IF i = Len(trace) THEN fs ELSE trace[i + 1].fs
DirtyAfter(i) == IF i = Len(trace) THEN dirty_files ELSE trace[i + 1].dirty

\* The paths of the model by what the kicker is to make of them.
SupportedPaths == {PFooJava, PBarKt, PGenPy, PBazKT}
UnsupportedPaths == {PJson, PReadme, PDotfile}

\* Call i is `op` on `file`, with no fault of the environment during it.
IsCall(i, op, file) ==
    /\ i \in DOMAIN trace
    /\ trace[i].op = op
    /\ trace[i].file = file
    /\ ~trace[i].fault

\* The bytes carry exactly one appended block on top of `base`.
OneBlockOn(bytes, base, file) ==
    \E name \in Names : bytes = base \o <<"\n">> \o GenerateContent(file, name) \o <<"\n">>

\* C1: for every supported file type and every original content, append(file)
\* on a file that is not dirty, followed immediately by cleanup(file), leaves
\* the file byte-identical to its content before the append.
C1_AppendCleanupRestores ==
    \A i \in DOMAIN trace : \A file \in SupportedPaths :
        ( /\ IsCall(i, "append", file)
          /\ IsCall(i + 1, "cleanup", file)
          /\ trace[i].fs[file].exists
          /\ file \notin trace[i].dirty )
        => /\ trace[i].out = "ok"
           /\ FsAfter(i)[file] # trace[i].fs[file]
           /\ FsAfter(i + 1)[file] = trace[i].fs[file]

\* C1 witness: a Python file of NearSize bytes was appended to and cleaned up.
C1_Witness ==
    /\ Len(trace) = 2
    /\ IsCall(1, "append", PGenPy)
    /\ IsCall(2, "cleanup", PGenPy)
    /\ orig[PGenPy] = File(Body(NearSize))
    /\ trace[2].fs[PGenPy] # orig[PGenPy]
    /\ fs[PGenPy] = orig[PGenPy]

\* C2: append(file) twice in succession and then cleanup(file) once restores the
\* content before the first append; after the second append the file carries
\* exactly one appended block, not two.
C2_DoubleAppendNoAccumulation ==
    \A i \in DOMAIN trace : \A file \in SupportedPaths :
        ( /\ IsCall(i, "append", file)
          /\ IsCall(i + 1, "append", file)
          /\ trace[i].fs[file].exists
          /\ file \notin trace[i].dirty )
        => /\ trace[i].out = "ok" /\ trace[i + 1].out = "ok"
           /\ OneBlockOn(FsAfter(i + 1)[file].bytes, trace[i].fs[file].bytes, file)
           /\ IsCall(i + 2, "cleanup", file)
                => FsAfter(i + 2)[file] = trace[i].fs[file]

\* C2 witness: two appends with different names, then a cleanup, on Foo.java.
C2_Witness ==
    /\ Len(trace) = 3
    /\ IsCall(1, "append", PFooJava)
    /\ IsCall(2, "append", PFooJava)
    /\ IsCall(3, "cleanup", PFooJava)
    /\ orig[PFooJava] = File(Body(MaxOrigLen))
    /\ trace[2].fs[PFooJava] # trace[3].fs[PFooJava]
    /\ fs[PFooJava] = orig[PFooJava]

\* C5: after cleanup_all_dirty() returns the dirty set is empty, also when
\* cleanups it performed reported an error.
C5_CleanupAllClearsDirty ==
    \A i \in DOMAIN trace :
        trace[i].op = "cleanup_all_dirty" => DirtyAfter(i) = {}

\* C5 witness: cleanup_all_dirty on a non-empty dirty set, one of whose cleanups
\* reported a problem.
C5_Witness ==
    /\ trace # <<>>
    /\ trace[Len(trace)].op = "cleanup_all_dirty"
    /\ trace[Len(trace)].dirty # {}
    /\ trace[Len(trace)].said # {}
    /\ dirty_files = {}

\* C6: cleanup(file) on a file that is not in the dirty set leaves the file's
\* bytes unchanged.
C6_CleanupOnlyIfDirty ==
    \A i \in DOMAIN trace : \A file \in DOMAIN fs :
        (IsCall(i, "cleanup", file) /\ file \notin trace[i].dirty)
        => FsAfter(i)[file] = trace[i].fs[file]

\* C7: while the environment does not interfere, a file is in the dirty set if
\* and only if it carries exactly one unreverted mutation, and every file outside
\* the dirty set has its original content.
C7_DirtyIffMutated ==
    faults = 0 =>
        \A file \in DOMAIN fs :
            /\ file \in dirty_files
                 <=> ( /\ file \in SupportedPaths
                       /\ fs[file].exists /\ orig[file].exists
                       /\ OneBlockOn(fs[file].bytes, orig[file].bytes, file) )
            /\ file \notin dirty_files => fs[file] = orig[file]

\* The first successful append to file, 0 if there is none.
FirstAppend(file) ==
    LET S == {i \in DOMAIN trace : IsCall(i, "append", file) /\ trace[i].out = "ok"}
    IN IF S = {} THEN 0 ELSE CHOOSE i \in S : \A j \in S : i <= j

\* C8: while the environment does not interfere, after a sequence of append and
\* cleanup calls on a file that ends with a cleanup (cleanup of the file, or
\* cleanup_all_dirty), the file's content is its content before the first append.
C8_CleanupRestoresOriginal ==
    faults = 0 =>
        \A file \in DOMAIN fs :
            LET k == FirstAppend(file)
                n == Len(trace)
            IN ( /\ k > 0 /\ k < n
                 /\ trace[n].op \in {"cleanup", "cleanup_all_dirty"}
                 /\ trace[n].op = "cleanup" => trace[n].file = file )
               => fs[file] = trace[k].fs[file]

\* C9: cleanup(file) on a file smaller than the expected removal length (two
\* newline bytes plus the generated content length) leaves the bytes unchanged
\* and prints the warning.
C9_TooSmallLeftAlone ==
    \A i \in DOMAIN trace : \A file \in SupportedPaths : \A name \in Names :
        ( /\ IsCall(i, "cleanup", file)
          /\ trace[i].fs[file].exists
          /\ Len(trace[i].fs[file].bytes) < 2 + Len(GenerateContent(file, name)) )
        => /\ FsAfter(i)[file] = trace[i].fs[file]
           /\ trace[i].said = {<<file, "warning">>}

\* C9 witness: cleanup of a Foo.java of NearSize bytes, less than the 136 bytes
\* that would be removed.
C9_Witness ==
    /\ trace # <<>>
    /\ IsCall(Len(trace), "cleanup", PFooJava)
    /\ trace[Len(trace)].fs[PFooJava] = File(Body(NearSize))
    /\ NearSize > 0
    /\ fs[PFooJava] = File(Body(NearSize))
    /\ <<PFooJava, "warning">> \in trace[Len(trace)].said

\* C10: append(file) on a file with no extension or an unsupported extension
\* raises, and leaves the file system and the dirty set as they were.
C10_UnsupportedAppendTouchesNothing ==
    \A i \in DOMAIN trace : \A file \in UnsupportedPaths :
        (trace[i].op = "append" /\ trace[i].file = file)
        => /\ trace[i].out = "ValueError"
           /\ FsAfter(i) = trace[i].fs
           /\ DirtyAfter(i) = trace[i].dirty

\* C10 witness: append was called on the existing dot-file .java, which has no
\* extension, while Bar.kt was dirty.
C10_Witness ==
    /\ trace # <<>>
    /\ trace[Len(trace)].op = "append"
    /\ trace[Len(trace)].file = PDotfile
    /\ fs[PDotfile].exists
    /\ Len(fs[PDotfile].bytes) > 0
    /\ dirty_files = {PBarKt}

\* C11: append(file) on a file of a supported type that does not exist, or whose
\* write fails, raises that error to the caller, and a file that was not dirty
\* before the call is not dirty after it.
C11_AppendErrorsPropagate ==
    \A i \in DOMAIN trace : \A file \in SupportedPaths :
        (trace[i].op = "append" /\ trace[i].file = file)
        => /\ ~trace[i].fs[file].exists => trace[i].out = "FileNotFoundError"
           /\ (trace[i].fs[file].exists /\ trace[i].wr_fault) => trace[i].out = "IOError"
           /\ trace[i].out = "ok"
                => /\ FsAfter(i)[file].exists
                   /\ \E name \in Names :
                         SubSeq(FsAfter(i)[file].bytes,
                                Len(FsAfter(i)[file].bytes) - Len(GenerateContent(file, name)),
                                Len(FsAfter(i)[file].bytes) - 1)
                         = GenerateContent(file, name)
           /\ (trace[i].out # "ok" /\ file \notin trace[i].dirty)
                => file \notin DirtyAfter(i)

\* C11 witness: an append to a missing file raised FileNotFoundError, and then
\* the write of an append to the existing, clean Bar.kt raised IOError and left
\* it clean.
C11_Witness ==
    /\ Len(trace) >= 2
    /\ \E i \in 1..(Len(trace) - 1) :
          /\ trace[i].op = "append"
          /\ trace[i].file \in SupportedPaths
          /\ ~trace[i].fs[trace[i].file].exists
          /\ trace[i].out = "FileNotFoundError"
    /\ trace[Len(trace)].op = "append"
    /\ trace[Len(trace)].file = PBarKt
    /\ trace[Len(trace)].wr_fault
    /\ trace[Len(trace)].out = "IOError"
    /\ fs[PBarKt].exists
    /\ PBarKt \notin dirty_files

\* C12: cleanup(file) returns normally also when the file is missing or its open
\* fails, printing the problem and leaving the file as it is; cleanup_all_dirty
\* therefore handles every file of the dirty set: each one is either truncated by
\* its removal length or has its problem printed.
C12_CleanupNeverRaises ==
    \A i \in DOMAIN trace :
        /\ trace[i].op \in {"cleanup", "cleanup_all_dirty"} => trace[i].out = "ok"
        /\ \A file \in DOMAIN fs :
              (trace[i].op = "cleanup" /\ trace[i].file = file /\ file \in SupportedPaths)
              => /\ ~trace[i].fs[file].exists
                      => trace[i].said = {<<file, "notfound">>}
                 /\ (trace[i].fs[file].exists /\ trace[i].fault)
                      => trace[i].said = {<<file, "ioerror">>}
                 /\ trace[i].said # {} => FsAfter(i)[file] = trace[i].fs[file]
        /\ \A file \in SupportedPaths :
              (trace[i].op = "cleanup_all_dirty" /\ file \in trace[i].dirty)
              => \/ \E msg \in {"notfound", "ioerror", "warning"} :
                       /\ <<file, msg>> \in trace[i].said
                       /\ FsAfter(i)[file] = trace[i].fs[file]
                 \/ /\ \A m \in trace[i].said : m[1] # file
                    /\ \E name \in Names :
                          Len(FsAfter(i)[file].bytes)
                          = Len(trace[i].fs[file].bytes) - 2 - Len(GenerateContent(file, name))

\* C12 witness: cleanup_all_dirty on two dirty files; the open of Foo.java
\* failed and Bar.kt was restored all the same.
C12_Witness ==
    /\ Len(trace) = 3
    /\ trace[3].op = "cleanup_all_dirty"
    /\ trace[3].dirty = {PFooJava, PBarKt}
    /\ trace[3].said = {<<PFooJava, "ioerror">>}
    /\ fs[PFooJava] = trace[3].fs[PFooJava]
    /\ fs[PBarKt] = orig[PBarKt]
    /\ fs[PBarKt] # trace[3].fs[PBarKt]

---------------------------------------------------------------------------
(* Properties of a run of build_script.py.                                 *)

\* Timed builds whose process exited non-zero.
FailedTimed ==
    {i \in DOMAIN builds : builds[i].phase = "timed" /\ builds[i].returncode # 0}

\* C3: when the run ends, after any number of passes and whichever build failed
\* or none, every file the filter does not exclude has the bytes it had before
\* the run.
C3_RunRestoresSources ==
    pc = "exit" =>
        \A file \in DOMAIN fs : ~Excluded(file) => fs[file] = orig[file]

\* C3 witness: the Gradle build of the second pass failed after Foo.java and
\* Bar.kt had been mutated in both passes, and the run has ended.
C3_Witness ==
    /\ pc = "exit"
    /\ failure = "RuntimeError"
    /\ builds # <<>>
    /\ builds[Len(builds)].sys = "Gradle"
    /\ builds[Len(builds)].phase = "timed"
    /\ builds[Len(builds)].pass = 1
    /\ builds[Len(builds)].returncode # 0
    /\ appended = <<PFooJava, PBarKt, PFooJava, PBarKt>>
    /\ orig[PFooJava] = File(Body(MaxOrigLen))
    /\ fs = orig

\* C4: a failed timed build is the last build of the run; the failure leaves the
\* script only after cleanup_all_dirty has completed, and neither the statistics
\* nor the measurement table are emitted.
C4_FailedBuildAbortsAfterCleanup ==
    \A i \in FailedTimed :
        /\ i = Len(builds)
        /\ failure = "RuntimeError"
        /\ pc \in {"finally", "exit"}
        /\ pc = "finally" => cleanups = 0
        /\ pc = "exit" => cleanups = 1 /\ dirty_files = {}
        /\ output = {}

\* C4 witness: the first timed build failed while files were dirty, and the run
\* has ended.
C4_Witness ==
    /\ pc = "exit"
    /\ FailedTimed = {Len(builds)}
    /\ builds[Len(builds)].sys = "Bazel"
    /\ builds[Len(builds)].pass = 0
    /\ Len(appended) = 2
    /\ cleanups = 1
    /\ output = {}

\* The builds of one kind, in the order they ran, and the systems and times of a
\* sequence of builds.
TimedOk(sys) ==
    LET Test(b) == b.phase = "timed" /\ b.sys = sys /\ b.out = "ok"
    IN SelectSeq(builds, Test)
TimedOfPass(p) ==
    LET Test(b) == b.phase = "timed" /\ b.pass = p
    IN SelectSeq(builds, Test)
WarmUps(sys) == {i \in DOMAIN builds : builds[i].phase = "warmup" /\ builds[i].sys = sys}
SysOf(bs) == [j \in DOMAIN bs |-> bs[j].sys]
TimeOf(bs) == [j \in DOMAIN bs |-> bs[j].time]
IsPrefix(s, t) == Len(s) <= Len(t) /\ s = SubSeq(t, 1, Len(s))
Passes == 0..(MaxBuildCount + 1)

\* C13: when the first timed build of a pass starts, every discovered file the
\* filter does not exclude is dirty and carries exactly one appended block on
\* its original bytes; a pass has at most one timed build per system and a
\* completed pass exactly one; and the sequence of a system holds the times of
\* its successful timed builds, in order.
C13_PassMutatesAllThenBuildsEach ==
    /\ pc = "build_bazel"
         => /\ TimedOfPass(iter) = <<>>
            /\ \A k \in DOMAIN source_files :
                  ~Contains(source_files[k], GeneratedMark)
                  => /\ source_files[k] \in dirty_files
                     /\ fs[source_files[k]].exists
                     /\ OneBlockOn(fs[source_files[k]].bytes,
                                   orig[source_files[k]].bytes, source_files[k])
    /\ \A p \in Passes : \A sys \in Systems :
          LET n == Cardinality({i \in DOMAIN builds :
                                   /\ builds[i].phase = "timed"
                                   /\ builds[i].pass = p
                                   /\ builds[i].sys = sys})
          IN /\ n <= 1
             /\ p < iter => n = 1
    /\ \A sys \in Systems : times[sys] = TimeOf(TimedOk(sys))

\* C13 witness: the second pass has mutated Foo.java and Bar.kt again and is
\* about to start its Bazel build; the first pass built all three systems.
C13_Witness ==
    /\ pc = "build_bazel"
    /\ iter = 1
    /\ source_files = <<PFooJava, PGenerated, PBarKt>>
    /\ dirty_files = {PFooJava, PBarKt}
    /\ Len(orig[PFooJava].bytes) = MaxOrigLen
    /\ \A sys \in Systems : Len(times[sys]) = 1
    /\ times["Gradle"] # times["Buck2"]

\* C14: a file whose path contains "/_generated_databinding/" is never passed
\* to append, is never in the dirty set, and keeps its bytes throughout the run.
C14_GeneratedNeverTouched ==
    \A file \in DOMAIN fs :
        Contains(file, GeneratedMark)
        => /\ \A k \in DOMAIN appended : appended[k] # file
           /\ file \notin dirty_files
           /\ fs[file] = orig[file]

\* C14 witness: a run over a list that holds the generated file has ended after
\* two passes, in each of which the other two files were mutated.
C14_Witness ==
    /\ pc = "exit"
    /\ failure = "none"
    /\ iter = 2
    /\ \E k \in DOMAIN source_files : source_files[k] = PGenerated
    /\ appended = <<PFooJava, PBarKt, PFooJava, PBarKt>>
    /\ fs[PGenerated].exists

\* C15 as claimed: within every pass the systems are built in the order of
\* registration, Bazel, Buck2, Gradle.
C15_RegistrationOrder ==
    \A p \in Passes : IsPrefix(SysOf(TimedOfPass(p)), Registration)

\* C15: within every pass the build systems are built one after another in the
\* fixed order Bazel, Gradle, Buck2, the same in every pass.
C15_FixedLoopOrder ==
    \A p \in Passes : IsPrefix(SysOf(TimedOfPass(p)), LoopOrder)

\* C15 witness: two complete passes, each Bazel, Gradle, Buck2.
C15_Witness ==
    /\ pc = "exit"
    /\ failure = "none"
    /\ SysOf(TimedOfPass(0)) = LoopOrder
    /\ SysOf(TimedOfPass(1)) = LoopOrder

\* C16: each system has at most one warm-up build; once the script is past the
\* warm-ups, and so whenever a source file has been mutated, each system has had
\* exactly one, its time kept apart in the warm-up values; no warm-up build comes
\* after a timed build, and the sequence of a system has as many entries as the
\* system has successful timed builds.
C16_WarmUpOncePerSystemUnmeasured ==
    /\ \A sys \in Systems : Cardinality(WarmUps(sys)) <= 1
    /\ (appended # <<>> \/ pc \in {"discover", "loop", "append", "move_raw", "build_bazel"})
         => \A sys \in Systems :
               /\ Cardinality(WarmUps(sys)) = 1
               /\ sys \in DOMAIN warmup
               /\ \A i \in WarmUps(sys) : builds[i].out = "ok" /\ builds[i].time = warmup[sys]
    /\ \A i \in DOMAIN builds : \A j \in DOMAIN builds :
          (builds[i].phase = "timed" /\ builds[j].phase = "warmup") => j < i
    /\ \A sys \in Systems : Len(times[sys]) = Len(TimedOk(sys))

\* C16 witness: the three warm-ups are done, the first file has been mutated
\* and no timed build has run.
C16_Witness ==
    /\ Len(appended) = 1
    /\ Len(builds) = 3
    /\ \A sys \in Systems : Cardinality(WarmUps(sys)) = 1 /\ times[sys] = <<>>
    /\ warmup["Bazel"] # warmup["Gradle"]

\* C17: when the statistics have been computed or the table is written, every
\* system's sequence has exactly build_count entries; when the script arrives at
\* the statistics the sequences have the same length.
C17_SameCountPerSystem ==
    /\ ("stats" \in output \/ pc = "csv" \/ "csv" \in output \/ "csv_error" \in output)
         => \A sys \in Systems : Len(times[sys]) = build_count
    /\ pc = "stats"
         => \A s1 \in Systems : \A s2 \in Systems : Len(times[s1]) = Len(times[s2])

\* C17 witness: the table has been written after two passes.
C17_Witness ==
    /\ pc = "exit"
    /\ "csv" \in output
    /\ build_count = 2
    /\ \A sys \in Systems : Len(times[sys]) = 2

---------------------------------------------------------------------------
(* Properties of BuildSys, over the finished calls and processes.          *)

\* The elapsed time of the j-th process of a finished call.
ElapsedOf(call, j) == launches[call.first + j].end - launches[call.first + j].start

\* C18: build() launches exactly one process, also while it is in progress; if
\* the process exits non-zero the call raises RuntimeError with the message
\* "<name> build failed: <captured output>", and if it exits zero the call
\* returns the time between that process's launch and its exit.
C18_BuildRunsProcessOnce ==
    /\ frame.method = "build"
         => proc.running /\ Len(launches) = frame.first
    /\ \A k \in DOMAIN returned :
          returned[k].method = "build"
          => /\ returned[k].launched = 1
             /\ LET l == launches[returned[k].first + 1]
                IN /\ l.returncode # 0
                        => /\ returned[k].out = "RuntimeError"
                           /\ returned[k].message
                              = <<returned[k].build_sys, " build failed: ", l.stdout>>
                           /\ returned[k].durations = <<>>
                   /\ l.returncode = 0
                        => /\ returned[k].out = "ok"
                           /\ returned[k].durations = <<l.end - l.start>>

\* C18 witness: the Gradle build's only process ran for some time and exited
\* non-zero; the call raised with what the process had printed.
C18_Witness ==
    /\ Len(returned) = 1
    /\ returned[1].method = "build"
    /\ returned[1].out = "RuntimeError"
    /\ returned[1].message = <<"Gradle", " build failed: ", "ERROR: no such target">>
    /\ Len(launches) = 1
    /\ launches[1].command = <<"./gradlew", "assembleDevRelease">>
    /\ launches[1].returncode = 1
    /\ launches[1].end > launches[1].start

\* C19 as claimed: a build_n_times call that returns has run its n builds one
\* after another, and the caller has each of the n durations.
C19_EachDurationObservable ==
    \A k \in DOMAIN returned :
        (returned[k].method = "build_n_times" /\ returned[k].out = "ok")
        => /\ returned[k].launched = returned[k].n
           /\ \A j \in 2..returned[k].n :
                 launches[returned[k].first + j - 1].end
                 <= launches[returned[k].first + j].start
           /\ returned[k].durations = [j \in 1..returned[k].n |-> ElapsedOf(returned[k], j)]

---------------------------------------------------------------------------
(* Properties of a run in a failing environment.                           *)

\* What the final cleanup_all_dirty of the run printed about files it left alone.
SkippedInFinalCleanup ==
    IF cleanups = 0 \/ trace = <<>> THEN {} ELSE trace[Len(trace)].said

\* C20 as claimed: a run whose final cleanup skipped a file (missing, open
\* failed, too small) does not end as a successful run.
C20_SkippedCleanupFailsRun ==
    (pc = "exit" /\ SkippedInFinalCleanup # {}) => failure # "none"

---------------------------------------------------------------------------
(* Further properties of the kicker.                                       *)

\* C26: for a supported file every generated content has the same length,
\* whatever name is drawn; the length is the same for two files whose extensions
\* are equal up to case; and the bytes an append adds to a clean file are as
\* many as the removal length every later cleanup computes.
C26_ContentLengthByExtension ==
    /\ \A file \in SupportedPaths : \A n1 \in Names : \A n2 \in Names :
          Len(GenerateContent(file, n1)) = Len(GenerateContent(file, n2))
    /\ \A f1 \in SupportedPaths : \A f2 \in SupportedPaths : \A n1 \in Names : \A n2 \in Names :
          Lower(Ext(f1)) = Lower(Ext(f2))
          => Len(GenerateContent(f1, n1)) = Len(GenerateContent(f2, n2))
    /\ \A i \in DOMAIN trace : \A file \in SupportedPaths :
          (IsCall(i, "append", file) /\ trace[i].out = "ok" /\ file \notin trace[i].dirty)
          => \A name \in Names :
                Len(FsAfter(i)[file].bytes) - Len(trace[i].fs[file].bytes)
                = ContentBytesLen(file, name)

\* C26 witness: Baz.KT was appended to with a name of "Z"s and cleaned up, and
\* has its original bytes again.
C26_Witness ==
    /\ Len(trace) = 2
    /\ IsCall(1, "append", PBazKT)
    /\ trace[1].out = "ok"
    /\ Len(trace[1].fs[PBazKT].bytes) = MaxOrigLen
    /\ trace[2].fs[PBazKT].bytes[Len(trace[2].fs[PBazKT].bytes) - 6] = "Z"
    /\ IsCall(2, "cleanup", PBazKT)
    /\ fs[PBazKT] = orig[PBazKT]

\* C27 as claimed: an append that raises leaves the bytes of every file and the
\* dirty set as they were before the call.
C27_FailedAppendChangesNothing ==
    \A i \in DOMAIN trace :
        (trace[i].op = "append" /\ trace[i].out # "ok")
        => /\ FsAfter(i) = trace[i].fs
           /\ DirtyAfter(i) = trace[i].dirty

---------------------------------------------------------------------------
(* Further properties of a run of build_script.py.                         *)

\* C25: while a build process is in progress the script is inside the build call
\* that started it; no step taken in the meantime starts another process or
\* appends to or cleans up a source file.
C25_NothingOverlapsABuild ==
    /\ [](proc.running => pc \in DOMAIN BuildAt)
    /\ [][proc.running
            => /\ proc'.running => proc' = proc
               /\ fs' = fs
               /\ dirty_files' = dirty_files
               /\ appended' = appended
               /\ cleanups' = cleanups]_vars

\* C25 witness: the Gradle build of the second pass is in progress while
\* Foo.java and Bar.kt are mutated.
C25_Witness ==
    /\ proc.running
    /\ proc.command = <<"./gradlew", "assembleDevRelease">>
    /\ pc = "build_gradle"
    /\ iter = 1
    /\ dirty_files = {PFooJava, PBarKt}
    /\ Len(builds) = 7

\* C28 as claimed: when the run ends, resources.properties is in the directory
\* it was in before the run.
C28_ResourceBackInPlace ==
    pc = "exit" => resource = resource0

---------------------------------------------------------------------------
(* Properties of the measurement file and of the summary.                  *)

\* The records of a file: the rows the reader is given, blank lines left out.
Records == DictReader(csv_file.bytes)

\* The lengths of the duration lists that the records of the file carry.
ListLengths ==
    {Len(ParseMeasurements(Strip(Records[k][3])).values) :
        k \in {j \in DOMAIN Records :
                  Len(Records[j]) = 3 /\ ParseMeasurements(Strip(Records[j][3])).ok}}

\* C21 as claimed: a file in which two records carry duration lists of
\* different lengths is refused with exit status 1, no data is returned for it.
C21_DifferentLengthsRejected ==
    (csv_read.called /\ csv_file.exists /\ Cardinality(ListLengths) > 1)
    => csv_read.exit = 1

\* A bracketed list of numbers: "[" and "]" around number literals.
IsListOfNumbers(t) ==
    /\ Len(t) >= 2 /\ t[1] = "[" /\ t[Len(t)] = "]"
    /\ \A k \in DOMAIN ListItems(t) : ListItems(t)[k].kind = "number"

\* C22 as claimed: data is returned only for a file that has a record, each
\* record of three fields: a name that is not empty, "#" and exactly 3 or 6
\* hexadecimal digits, and a bracketed list of numbers that is not empty;
\* every other file ends in exit status 1.
C22_OnlyWellFormedFilesAreRead ==
    csv_read.called
    => /\ csv_read.exit \in {0, 1}
       /\ csv_read.exit = 0
          => /\ csv_file.exists
             /\ Records # <<>>
             /\ \A k \in DOMAIN Records :
                   /\ Len(Records[k]) = 3
                   /\ Strip(Records[k][1]) # <<>>
                   /\ IsHexColor(Strip(Records[k][2]))
                   /\ IsListOfNumbers(Strip(Records[k][3]))
                   /\ ListItems(Strip(Records[k][3])) # <<>>

\* C23: read_csv_data, reading the table build_script.py has written, returns
\* the three records written: name, color and durations, in the order written.
C23_WrittenTableReadBack ==
    [][(csv_read'.called /\ ~csv_read.called /\ "csv" \in output)
        => /\ csv_read'.exit = 0
           /\ csv_read'.colors = CustomColors
           /\ csv_read'.data = [k \in DOMAIN CustomColors |->
                                   [key |-> CustomColors[k].key,
                                    value |-> times[TimesOrder[k]]]]]_vars

\* C23 witness: a table of two durations a system, 0.5 s and 12.5 s for Bazel,
\* has been written and read back.
C23_Witness ==
    /\ "csv" \in output
    /\ csv_read.called
    /\ csv_read.exit = 0
    /\ times["Bazel"] = <<5, 125>>
    /\ times["Gradle"] = <<10, 10>>

\* C24: for each build system of the data read, with its M >= 1 durations,
\* count is M, min and max are the smallest and the largest duration, mean
\* times M is their sum, median is the middle duration in ascending order
\* (the mean of the two middle ones for an even M), both lie between min and
\* max, and std_dev is 0 when M is 1.
C24_SummaryStats ==
    stats # <<>>
    => /\ DOMAIN stats = DOMAIN csv_read.data
       /\ \A k \in DOMAIN stats :
             LET ts == csv_read.data[k].value
                 M == Len(ts)
                 st == stats[k].value
             IN  /\ stats[k].key = csv_read.data[k].key
                 /\ M >= 1
                 /\ st.count = M
                 /\ \E j \in 1..M : ts[j] = st.min
                 /\ \E j \in 1..M : ts[j] = st.max
                 /\ \A j \in 1..M : st.min <= ts[j] /\ ts[j] <= st.max
                 /\ st.mean.num * M = Sum(ts) * st.mean.den
                 /\ \E f \in [1..M -> 1..M] :
                       /\ \A i, j \in 1..M : i < j => f[i] # f[j] /\ ts[f[i]] <= ts[f[j]]
                       /\ IF M % 2 = 1
                          THEN st.median.num = ts[f[(M + 1) \div 2]] * st.median.den
                          ELSE 2 * st.median.num
                                  = (ts[f[M \div 2]] + ts[f[(M \div 2) + 1]]) * st.median.den
                 /\ FracLe(Frac(st.min, 1), st.median) /\ FracLe(st.median, Frac(st.max, 1))
                 /\ FracLe(Frac(st.min, 1), st.mean) /\ FracLe(st.mean, Frac(st.max, 1))
                 /\ M = 1 => st.std_dev.squared.num = 0

\* C24 witness: the summary of a table whose Bazel durations are 12.5 s and
\* 0.5 s and whose Buck2 durations are both 1.0 s.
C24_Witness ==
    /\ stats # <<>>
    /\ csv_read.data[1].value = <<125, 5>>
    /\ csv_read.data[2].value = <<10, 10>>
    /\ stats[1].value.median = Frac(65, 1)

---------------------------------------------------------------------------
(* Properties of the POM scripts, over the calls recorded in pom_calls.    *)

\* The changes of version a call without dry_run makes to the file `before`.
Pending(fn, before) ==
    LET after == IF fn = "modify_pom_file" THEN ModifyPomFile(before, FALSE).file
                 ELSE ModifyPomFileString(before, FALSE).file
    IN  {Change(before.deps[k].dep_key, before.deps[k].version, after.deps[k].version) :
            k \in {j \in DOMAIN before.deps : after.deps[j].version # before.deps[j].version}}

\* C29: a call of modify_pom_file or modify_pom_file_string with dry_run=True
\* leaves the POM as it was, never written; the changes it returns are the
\* changes of version a call without dry_run would make, and modified tells
\* whether there is one.
C29_DryRunWritesNothing ==
    \A i \in DOMAIN pom_calls :
        pom_calls[i].dry_run
        => /\ pom_calls[i].after = pom_calls[i].before
           /\ {pom_calls[i].changes[k] : k \in DOMAIN pom_calls[i].changes}
                 = Pending(pom_calls[i].fn, pom_calls[i].before)
           /\ pom_calls[i].modified = (Pending(pom_calls[i].fn, pom_calls[i].before) # {})

\* C29 witness: both functions have been called with dry_run=True on a POM
\* with a kotlin-stdlib dependency to be changed, each reporting the change.
C29_Witness ==
    /\ Len(pom_calls) = 2
    /\ pom_calls[1].fn = "modify_pom_file" /\ pom_calls[2].fn = "modify_pom_file_string"
    /\ \A i \in 1..2 : pom_calls[i].dry_run /\ pom_calls[i].modified
    /\ pom.exists /\ ~pom.rewritten
    /\ Len(pom.deps) = 2
    /\ pom.deps[1] = GivenDeps[1]

\* C30 as claimed: modify_pom_file returns with dry_run=True the list of
\* changes it returns with dry_run=False on the same file, and reports no
\* change when run again on the file it has rewritten.
C30_DryRunListsTheChanges ==
    \A i, j \in DOMAIN pom_calls :
        (/\ i < j
         /\ pom_calls[i].fn = "modify_pom_file"
         /\ pom_calls[j].fn = "modify_pom_file"
         /\ ~pom_calls[j].dry_run)
        => /\ (pom_calls[i].dry_run /\ pom_calls[j].before = pom_calls[i].before)
              => pom_calls[j].changes = pom_calls[i].changes
           /\ (~pom_calls[i].dry_run /\ j = i + 1)
              => pom_calls[j].changes = <<>> /\ ~pom_calls[j].modified

====
